---- MODULE Spec2Model ----
(***************************************************************************)
(* Reconciliation and traffic accounting of PTNexus (server/core/          *)
(* services.py, class DataTracker).                                        *)
(*                                                                         *)
(* Tables of the relational store are functions from primary key to row:   *)
(*   torrents              <<hash, downloader_id>> -> row                  *)
(*   torrent_upload_stats  <<hash, downloader_id>> -> uploaded             *)
(*   traffic_stats         <<stat_datetime, downloader_id>> -> row         *)
(* Python None and SQL NULL are the string None.  The canonical states     *)
(* the store holds are written in ASCII: "not_seeding" is the state the    *)
(* code spells '未做种', "paused" '已暂停', "stopped" '已停止', "error"     *)
(* '错误', "waiting" '等待', "queued" '队列', "seeding" '做种中',           *)
(* "downloading" '下载中'.                                                 *)
(***************************************************************************)
EXTENDS Integers, Sequences, FiniteSets, TLC

VARIABLES
    config,                  \* what config_manager.get() returns
    db_type,                 \* db_manager.db_type
    torrents,                \* table torrents
    torrent_upload_stats,    \* table torrent_upload_stats
    client_torrents,         \* what each download client holds (the connector's answer)
    now,                     \* wall clock in half seconds (datetime.now())
    pc,                      \* position of update_torrents_in_db
    loop_i,                  \* index of the for loop over enabled_downloaders
    all_db_attribute_index,  \* update_torrents_in_db: index built before the loop
    all_active_hashes,       \* update_torrents_in_db: hashes seen in this pass
    totals,                  \* update_torrents_in_db: total_new, total_updated, total_deleted
    call,                    \* locals of the last _update_downloader_torrents_incremental call
    pass_error,              \* some client of this pass failed to fetch or rolled back
    clients_unchanged,       \* an error-free pass has completed since the clients last changed
    traffic_stats,           \* table traffic_stats
    traffic_buffer,          \* DataTracker.traffic_buffer
    last_flush,              \* locals of the last _flush_traffic_buffer_to_db call
    _is_running,             \* DataTracker._is_running
    run_pc,                  \* position of DataTracker.run
    _startup_agg_rebuild_done, \* DataTracker._startup_agg_rebuild_done
    active_hashes,           \* run: the hash set update_torrents_in_db returned
    rebuild,                 \* locals of the last _startup_rebuild_aggregated_groups_once call
    tick,                    \* run and _fetch_and_buffer_stats: locals of the tick in progress
    shutdown_event,          \* DataTracker.shutdown_event
    stop_pc,                 \* position of the thread that calls DataTracker.stop
    aggregation_counter,     \* DataTracker.aggregation_counter
    main_pc,                 \* position of the main thread (app.py, background_runner.py)
    main_pass,               \* locals of the refresh run_startup_refresh_task runs
    data_tracker_thread,     \* services.data_tracker_thread
    threads,                 \* the DataTracker instances created so far
    callers,                 \* positions of the threads inside start_/stop_data_tracker
    dedup,                   \* locals of the last _deduplicate_based_on_active call
    clients,                 \* DataTracker.clients: the ids with a cached client handle
    use_proxy,               \* the enabled downloaders configured with use_proxy
    traffic_buffer_lock,     \* DataTracker.traffic_buffer_lock: "free" or the thread that holds it
    handed                   \* history: the entries of traffic_buffer by number, and the
                             \* numbers each returned _flush_traffic_buffer_to_db call was given

vars == <<config, db_type, torrents, torrent_upload_stats, client_torrents, now, pc, loop_i,
          all_db_attribute_index, all_active_hashes, totals, call, pass_error,
          clients_unchanged, traffic_stats, traffic_buffer, last_flush, _is_running,
          run_pc, _startup_agg_rebuild_done, active_hashes, rebuild, tick, shutdown_event,
          stop_pc, aggregation_counter, main_pc, main_pass, data_tracker_thread, threads,
          callers, dedup,
          clients, use_proxy, traffic_buffer_lock, handed>>

torrent_vars == <<torrents, torrent_upload_stats, client_torrents, pc, loop_i,
                  all_db_attribute_index, all_active_hashes, totals, call, pass_error,
                  clients_unchanged>>

traffic_vars == <<traffic_stats, traffic_buffer, last_flush, _is_running>>

run_vars == <<run_pc, _startup_agg_rebuild_done, active_hashes, rebuild, tick,
              shutdown_event, stop_pc, aggregation_counter>>

main_vars == <<main_pc, main_pass>>

lifecycle_vars == <<data_tracker_thread, threads, callers>>

connector_vars == <<clients, use_proxy>>

lock_vars == <<traffic_buffer_lock, handed>>

---------------------------------------------------------------------------
(* Universe of the model *)

None == "None"

Hashes == {"hA", "hB"}

\* the configuration of the model: two enabled downloaders and a disabled one
ConfiguredDownloaders ==
    << [id |-> "X", enabled |-> TRUE], [id |-> "Y", enabled |-> TRUE],
       [id |-> "Z", enabled |-> FALSE] >>

\* config.get("downloaders", []), in configuration order
Downloaders == config.downloaders

InitConfig == config = [downloaders |-> ConfiguredDownloaders]

enabled_downloaders == SelectSeq(Downloaders, LAMBDA d : d.enabled)

DownloaderIds == {Downloaders[k].id : k \in 1..Len(Downloaders)}

EnabledIds == {enabled_downloaders[k].id : k \in 1..Len(enabled_downloaders)}

\* the hashes each client may hold in the model
ClientHashes == [d \in DownloaderIds |-> IF d = "X" THEN Hashes ELSE {"hA"}]

DbTypes == {"sqlite", "mysql", "postgresql"}

\* the states of _delete_torrents_batch's NOT IN list
InactiveStates == {"not_seeding", "paused", "stopped", "error", "waiting", "queued"}

\* utils.format_state: backend-native state -> canonical state
format_state(s) ==
    CASE s = "uploading"   -> "seeding"
      [] s = "forcedUP"    -> "seeding"
      [] s = "stalledUP"   -> "not_seeding"
      [] s = "pausedUP"    -> "paused"
      [] s = "stoppedUP"   -> "stopped"
      [] s = "error"       -> "error"
      [] s = "queuedUP"    -> "queued"
      [] s = "checkingUP"  -> "waiting"
      [] s = "downloading" -> "downloading"
      [] OTHER             -> s

\* round(progress * 100, 1): progress arrives in 1/10000, the store keeps tenths of a percent
RoundProgress(p) == (p + 5) \div 10

\* a normalized snapshot entry with site, details and group already resolved
\* (_normalize_torrent_info, then the loop at the head of _compare_torrent_changes)
TorrentInfo(name, save_path, state, sites, progress, seeders, uploaded) ==
    [name |-> name, save_path |-> save_path, size |-> 100, progress |-> progress,
     state |-> state, sites |-> sites, details |-> "", group |-> None,
     uploaded |-> uploaded, seeders |-> seeders]

\* strftime("%Y-%m-%d %H:%M:%S") of a clock value: the fraction of the second is cut
strftime(t) == t \div 2

---------------------------------------------------------------------------
(* Helpers on tables *)

Without(f, S) == [x \in DOMAIN f \ S |-> f[x]]

\* g wins where both are defined
Overwrite(f, g) == [x \in DOMAIN f \cup DOMAIN g |-> IF x \in DOMAIN g THEN g[x] ELSE f[x]]

EmptyTable == [x \in {} |-> None]

---------------------------------------------------------------------------
(* Identity resolver *)

\* (value or "")
OrEmpty(s) == IF s = None THEN "" ELSE s

\* str.strip() on the strings of the model
Strip(s) ==
    CASE s = " Foo" -> "Foo"
      [] s = "Foo " -> "Foo"
      [] s = " /d"  -> "/d"
      [] s = " S"   -> "S"
      [] OTHER      -> s

\* str.lower() on the strings of the model
Lower(s) ==
    CASE s = "S"   -> "s"
      [] s = "G"   -> "g"
      [] s = "Foo" -> "foo"
      [] s = "Bar" -> "bar"
      [] OTHER     -> s

_generate_attribute_key(torrent_info) ==
    <<torrent_info.name, torrent_info.save_path, torrent_info.size,
      torrent_info.sites, torrent_info.group>>

_normalize_attr_key(name, save_path, size, sites, group) ==
    <<Strip(OrEmpty(name)), Strip(OrEmpty(save_path)), size,
      Lower(Strip(OrEmpty(sites))), Lower(Strip(OrEmpty(group)))>>

NormKeyOf(r) == _normalize_attr_key(r.name, r.save_path, r.size, r.sites, r.group)

\* the rows of the whole store as (normalized key, hash, downloader_id)
_build_torrents_attribute_index_from_db(T) ==
    {[key |-> NormKeyOf(T[k]), hash |-> k[1], downloader_id |-> k[2]] : k \in DOMAIN T}

---------------------------------------------------------------------------
(* Reconciler: classification of one client's snapshot against its rows *)

\* _get_downloader_torrents_from_db: the rows of one downloader, keyed by hash
_get_downloader_torrents_from_db(T, downloader_id) ==
    [h \in {k[1] : k \in {k2 \in DOMAIN T : k2[2] = downloader_id}} |->
        T[<<h, downloader_id>>]]

\* the tenths t of the model for which the doubles of (t + 1) / 10 and t / 10
\* are more than the double 0.1 apart: 50.0 - 49.9 and 50.1 - 50.0 are
\* 0.10000000000000142, while 100.0 - 99.9 is 0.09999999999999432
WideTenths == {499, 500}

\* abs(a - b) > 0.1 on the doubles of two one-decimal values given in tenths
AbsDiffAboveTenth(a, b) ==
    LET lo == IF a < b THEN a ELSE b
        hi == IF a < b THEN b ELSE a
    IN  IF hi - lo = 1 THEN lo \in WideTenths ELSE hi - lo > 1

_should_update_torrent(current_info, db_info) ==
    LET current_progress == RoundProgress(current_info.progress)
    IN  \/ AbsDiffAboveTenth(current_progress, db_info.progress)
        \/ format_state(current_info.state) # db_info.state
        \/ current_info.size # db_info.size
        \/ current_info.save_path # db_info.save_path
        \/ current_info.seeders # db_info.seeders

\* db_attribute_to_hash: one hash per raw attribute key.  The rows come from a
\* SELECT without ORDER BY and the last row of a key wins, so any row of the
\* key may be the one the map holds.
DbAttributeMaps(db_torrents) ==
    LET keys == {_generate_attribute_key(db_torrents[h]) : h \in DOMAIN db_torrents}
    IN  {m \in [keys -> DOMAIN db_torrents] :
            \A k \in keys : _generate_attribute_key(db_torrents[m[k]]) = k}

\* the hash of this downloader matched by raw attribute key, or None
OldHashForReplacement(current_info, db_attribute_to_hash) ==
    IF _generate_attribute_key(current_info) \in DOMAIN db_attribute_to_hash
    THEN db_attribute_to_hash[_generate_attribute_key(current_info)]
    ELSE None

\* OldRowsForReplacement that never looks at the other downloaders
OldRowsForReplacement_None(current_info, downloader_id, index) == {}

\* the rows of other downloaders the index holds under the normalized key
OldRowsForReplacement(current_info, downloader_id, index) ==
    {<<e.hash, e.downloader_id>> :
        e \in {e2 \in index : /\ e2.key = NormKeyOf(current_info)
                              /\ e2.downloader_id # downloader_id}}

_compare_torrent_changes(current_torrents, db_torrents, downloader_id, index, db_attribute_to_hash) ==
    LET current_hashes == DOMAIN current_torrents
        db_hashes == DOMAIN db_torrents
        fresh == current_hashes \ db_hashes
        old_hash(h) == OldHashForReplacement(current_torrents[h], db_attribute_to_hash)
        old_rows(h) == OldRowsForReplacement(current_torrents[h], downloader_id, index)
        replacing == {h \in fresh : old_rows(h) # {} \/ old_hash(h) # None}
        changed == {h \in current_hashes \cap db_hashes :
                        _should_update_torrent(current_torrents[h], db_torrents[h])}
    IN  [new_torrents |-> fresh \ replacing,
         updated_torrents |-> replacing \cup changed,
         old_hash_for_replacement |->
            [h \in replacing \cup changed |-> IF h \in replacing THEN old_hash(h) ELSE None],
         old_rows_for_replacement |->
            [h \in replacing \cup changed |-> IF h \in replacing THEN old_rows(h) ELSE {}],
         deleted_hashes |->
            (db_hashes \ current_hashes)
                \ {old_hash(h) : h \in {h2 \in replacing : old_hash(h2) # None}}]

---------------------------------------------------------------------------
(* Persistence writer *)

\* SELECT DISTINCT name FROM torrents WHERE state NOT IN (...)
SeedingNames(T) == {T[k].name : k \in {k2 \in DOMAIN T : T[k2].state \notin InactiveStates}}

\* ShouldDeleteRow with the retention check applied to every inactive state
ShouldDeleteRow_AllInactiveChecked(torrent, seeding_names) ==
    IF torrent.state \notin InactiveStates
    THEN TRUE
    ELSE torrent.name \notin seeding_names

\* ShouldDeleteRow with the retention check applied whatever the state
ShouldDeleteRow_AlwaysChecked(torrent, seeding_names) ==
    torrent.name \notin seeding_names

\* ShouldDeleteRow with the retention check inverted
ShouldDeleteRow_Inverted(torrent, seeding_names) ==
    IF torrent.state # "not_seeding"
    THEN TRUE
    ELSE torrent.name \in seeding_names

\* the classification loop of _delete_torrents_batch: TRUE when the row goes
ShouldDeleteRow(torrent, seeding_names) ==
    IF torrent.state # "not_seeding"
    THEN TRUE
    ELSE torrent.name \notin seeding_names

HashesToDelete(T, downloader_id, deleted_hashes) ==
    {h \in deleted_hashes :
        /\ <<h, downloader_id>> \in DOMAIN T
        /\ ShouldDeleteRow(T[<<h, downloader_id>>], SeedingNames(T))}

_delete_torrents_batch(T, downloader_id, deleted_hashes) ==
    Without(T, {<<h, downloader_id>> : h \in HashesToDelete(T, downloader_id, deleted_hashes)})

\* SQL three-valued helpers (NULL is None)
NullIf(a, b) == IF a # None /\ a = b THEN None ELSE a

Coalesce(a, b) == IF a # None THEN a ELSE b

\* a != b used as a condition: NULL counts as not true
IsDistinctTrue(a, b) == a # None /\ b # None /\ a # b

\* the parameter tuple of _upsert_torrents_batch as a row
NewRow(torrent_info, now_str) ==
    [name |-> torrent_info.name, save_path |-> torrent_info.save_path,
     size |-> torrent_info.size, progress |-> RoundProgress(torrent_info.progress),
     state |-> format_state(torrent_info.state), sites |-> torrent_info.sites,
     details |-> torrent_info.details, group |-> torrent_info.group,
     last_seen |-> now_str, seeders |-> torrent_info.seeders, iyuu_last_check |-> None]

\* UpsertMysql with sites=VALUES(sites)
UpsertMysql_SitesOverwritten(old, excluded) ==
    [name |-> excluded.name, save_path |-> excluded.save_path, size |-> excluded.size,
     progress |-> excluded.progress, state |-> excluded.state,
     sites |-> excluded.sites,
     details |-> IF IsDistinctTrue(excluded.details, "") THEN excluded.details ELSE old.details,
     group |-> Coalesce(NullIf(excluded.group, ""), old.group),
     last_seen |-> excluded.last_seen, seeders |-> excluded.seeders,
     iyuu_last_check |-> old.iyuu_last_check]

\* ON DUPLICATE KEY UPDATE ... (mysql)
UpsertMysql(old, excluded) ==
    [name |-> excluded.name, save_path |-> excluded.save_path, size |-> excluded.size,
     progress |-> excluded.progress, state |-> excluded.state,
     sites |-> Coalesce(NullIf(excluded.sites, ""), old.sites),
     details |-> IF IsDistinctTrue(excluded.details, "") THEN excluded.details ELSE old.details,
     group |-> Coalesce(NullIf(excluded.group, ""), old.group),
     last_seen |-> excluded.last_seen, seeders |-> excluded.seeders,
     iyuu_last_check |-> old.iyuu_last_check]

\* ON CONFLICT(hash, downloader_id) DO UPDATE SET ... (postgresql)
UpsertPostgresql(old, excluded) ==
    [name |-> excluded.name, save_path |-> excluded.save_path, size |-> excluded.size,
     progress |-> excluded.progress, state |-> excluded.state,
     sites |-> Coalesce(NullIf(excluded.sites, ""), old.sites),
     details |-> CASE IsDistinctTrue(excluded.details, "") -> excluded.details
                   [] OTHER -> old.details,
     group |-> Coalesce(NullIf(excluded.group, ""), old.group),
     last_seen |-> excluded.last_seen, seeders |-> excluded.seeders,
     iyuu_last_check |-> old.iyuu_last_check]

\* ON CONFLICT(hash, downloader_id) DO UPDATE SET ... (sqlite)
UpsertSqlite(old, excluded) ==
    [name |-> excluded.name, save_path |-> excluded.save_path, size |-> excluded.size,
     progress |-> excluded.progress, state |-> excluded.state,
     sites |-> Coalesce(NullIf(excluded.sites, ""), old.sites),
     details |-> CASE IsDistinctTrue(excluded.details, "") -> excluded.details
                   [] OTHER -> old.details,
     group |-> Coalesce(NullIf(excluded.group, ""), old.group),
     last_seen |-> excluded.last_seen, seeders |-> excluded.seeders,
     iyuu_last_check |-> old.iyuu_last_check]

UpsertRow(dbt, old, excluded) ==
    CASE dbt = "mysql"      -> UpsertMysql(old, excluded)
      [] dbt = "postgresql" -> UpsertPostgresql(old, excluded)
      [] OTHER              -> UpsertSqlite(old, excluded)

\* ReplacedKeys that forgets the old hash of the same downloader
ReplacedKeys_OtherDownloadersOnly(plan, downloader_id) ==
    UNION {plan.old_rows_for_replacement[h] : h \in plan.updated_torrents}

\* first loop of _upsert_torrents_batch: the keys of the rows replaced
ReplacedKeys(plan, downloader_id) ==
    UNION {plan.old_rows_for_replacement[h]
             \cup (IF plan.old_hash_for_replacement[h] # None
                   THEN {<<plan.old_hash_for_replacement[h], downloader_id>>}
                   ELSE {}) : h \in plan.updated_torrents}

\* executemany(sql, batch_params) of _upsert_torrents_batch
UpsertRows(T, hashes, current_torrents, downloader_id, now_str, dbt) ==
    Overwrite(T,
        [k \in {<<h, downloader_id>> : h \in hashes} |->
            IF k \in DOMAIN T
            THEN UpsertRow(dbt, T[k], NewRow(current_torrents[k[1]], now_str))
            ELSE NewRow(current_torrents[k[1]], now_str)])

_collect_upload_stats(current_torrents) ==
    {h \in DOMAIN current_torrents : current_torrents[h].uploaded > 0}

_upsert_upload_stats_batch(S, current_torrents, downloader_id) ==
    Overwrite(S,
        [k \in {<<h, downloader_id>> : h \in _collect_upload_stats(current_torrents)} |->
            current_torrents[k[1]].uploaded])

\* The working copies of the two tables inside the transaction of
\* _process_torrent_changes, after 0, 1, 2, 3 and 4 of its statements:
\* delete batch, replacement deletes, upserts, upload statistics.
TransactionSteps(T, S, downloader_id, plan, current_torrents, now_str, dbt) ==
    LET t1 == _delete_torrents_batch(T, downloader_id, plan.deleted_hashes)
        gone == ReplacedKeys(plan, downloader_id)
        t2 == Without(t1, gone)
        s2 == Without(S, gone)
        t3 == UpsertRows(t2, plan.new_torrents \cup plan.updated_torrents,
                         current_torrents, downloader_id, now_str, dbt)
        s4 == _upsert_upload_stats_batch(s2, current_torrents, downloader_id)
    IN  << [t |-> T, s |-> S], [t |-> t1, s |-> S], [t |-> t2, s |-> s2],
           [t |-> t3, s |-> s2], [t |-> t3, s |-> s4] >>

\* Rollback that keeps the statements already executed
Rollback_KeepsWork(before, work) == work

\* conn.rollback(): the store is what it was before the transaction
Rollback(before, work) == before

\* _process_torrent_changes; failed_after = -1 when no statement fails, else the
\* number of statements that completed before the exception
_process_torrent_changes(T, S, downloader_id, plan, current_torrents, now_str, dbt, failed_after) ==
    LET steps == TransactionSteps(T, S, downloader_id, plan, current_torrents, now_str, dbt)
        deleted == HashesToDelete(T, downloader_id, plan.deleted_hashes)
    IN  IF failed_after = -1
        THEN [store |-> steps[5], outcome |-> "committed",
              new_count |-> Cardinality(plan.new_torrents),
              updated_count |-> Cardinality(plan.updated_torrents),
              deleted_count |-> Cardinality(deleted)]
        ELSE [store |-> Rollback(steps[1], steps[failed_after + 1]),
              outcome |-> "rolled_back",
              new_count |-> 0, updated_count |-> 0, deleted_count |-> 0]

\* _cleanup_deleted_downloaders: rows of downloaders the configuration no longer names
_cleanup_deleted_downloaders(T) ==
    Without(T, {k \in DOMAIN T : k[2] \notin DownloaderIds})

---------------------------------------------------------------------------
(* Traffic accountant *)

\* the last second in which the model takes traffic samples
MaxNow == 2

\* the largest cumulative counter a client reports in the model
MaxCounter == 2

\* self.interval with realtime_speed_enabled
interval == 1

\* TARGET_WRITE_PERIOD_SECONDS, scaled down from 60
TARGET_WRITE_PERIOD_SECONDS == 2

\* max(1, TARGET_WRITE_PERIOD_SECONDS // self.interval)
TRAFFIC_BATCH_WRITE_SIZE ==
    IF TARGET_WRITE_PERIOD_SECONDS \div interval > 1
    THEN TARGET_WRITE_PERIOD_SECONDS \div interval
    ELSE 1

\* what one client answers to the statistics call of a tick; fetched = FALSE
\* when the call fails or no client handle can be made
ClientStats(fetched, total_ul, total_dl) ==
    [fetched |-> fetched, total_ul |-> total_ul, total_dl |-> total_dl,
     ul_speed |-> 0, dl_speed |-> 0]

\* the answers the clients give in the model: X fails, or reports any upload
\* or any download counter; Y always reports the same counters
TrafficAnswers ==
    [d \in EnabledIds |->
        IF d = "X"
        THEN {ClientStats(FALSE, 0, 0)}
                \cup {ClientStats(TRUE, c, 0) : c \in 0..MaxCounter}
                \cup {ClientStats(TRUE, 0, c) : c \in 1..MaxCounter}
        ELSE {ClientStats(TRUE, 1, 1)}]

\* the enabled downloaders read without a proxy (every downloader of the model
\* is of type qbittorrent)
DirectIds == EnabledIds \ use_proxy

\* what one downloader adds to data_points in _fetch_and_buffer_stats: with a
\* proxy the point is appended at line 424 and again at line 474, after the
\* if/else of lines 385-465
PointsOfDownloader(d, answer) ==
    LET p == [downloader_id |-> d, fetched |-> answer.fetched,
              total_ul |-> answer.total_ul, total_dl |-> answer.total_dl,
              ul_speed |-> answer.ul_speed, dl_speed |-> answer.dl_speed]
    IN  IF ~(p.fetched /\ (p.total_ul > 0 \/ p.total_dl > 0)) THEN <<>>
        ELSE IF d \in use_proxy THEN <<p, p>>
        ELSE <<p>>

RECURSIVE DataPointsFrom(_, _)
DataPointsFrom(k, answers) ==
    IF k > Len(enabled_downloaders) THEN <<>>
    ELSE PointsOfDownloader(enabled_downloaders[k].id, answers[enabled_downloaders[k].id])
            \o DataPointsFrom(k + 1, answers)

\* data_points of _fetch_and_buffer_stats, in configuration order
DataPoints(answers) == DataPointsFrom(1, answers)

\* self.clients after the loop of _fetch_and_buffer_stats: a direct downloader
\* that answered has its handle cached by _get_client; one that failed has it
\* removed (lines 165-166, 441, 478-479) or never had one
ClientsAfterStats(answers) ==
    (clients \ {d \in DirectIds : ~answers[d].fetched})
        \cup {d \in DirectIds : answers[d].fetched}

\* the pairs (timestamp, data point) of a buffer, in buffer order
RECURSIVE BufferSamples(_)
BufferSamples(buffer) ==
    IF buffer = <<>>
    THEN <<>>
    ELSE [k \in 1..Len(Head(buffer).points) |->
             [timestamp |-> Head(buffer).timestamp, point |-> Head(buffer).points[k]]]
         \o BufferSamples(Tail(buffer))

\* filtered_buffer, flattened
FilteredSamples(buffer) ==
    SelectSeq(BufferSamples(buffer),
              LAMBDA x : x.point.total_ul > 0 \/ x.point.total_dl > 0)

\* the rows the SELECT of _flush_traffic_buffer_to_db returns: AND binds
\* tighter than OR in its WHERE clause
LastRecordRows(TS, downloader_ids) ==
    {k \in DOMAIN TS :
        \/ (k[2] \in downloader_ids /\ TS[k].cumulative_uploaded > 0)
        \/ TS[k].cumulative_downloaded > 0}

\* last_records: per downloader the first of its rows in stat_datetime DESC order
LastRecords(TS, downloader_ids) ==
    LET rows == LastRecordRows(TS, downloader_ids)
        latest(d) == CHOOSE k \in rows :
                        k[2] = d /\ \A k2 \in rows : k2[2] = d => k2[1] <= k[1]
    IN  [d \in {k[2] : k \in rows} |->
            [cumulative_uploaded |-> TS[latest(d)].cumulative_uploaded,
             cumulative_downloaded |-> TS[latest(d)].cumulative_downloaded,
             stat_datetime |-> latest(d)[1]]]

\* ShouldInsert that only rejects a counter that fell to zero
ShouldInsert_ZeroOnly(point, last_records) ==
    IF point.downloader_id \in DOMAIN last_records
    THEN LET last_ul == last_records[point.downloader_id].cumulative_uploaded
             last_dl == last_records[point.downloader_id].cumulative_downloaded
         IN  ~ \/ (point.total_ul = 0 /\ last_ul > 0)
               \/ (point.total_dl = 0 /\ last_dl > 0)
    ELSE TRUE

\* the validation of one data point against last_records: TRUE when it is inserted
ShouldInsert(point, last_records) ==
    IF point.downloader_id \in DOMAIN last_records
    THEN LET last_ul == last_records[point.downloader_id].cumulative_uploaded
             last_dl == last_records[point.downloader_id].cumulative_downloaded
         IN  ~ \/ (point.total_ul > 0 /\ point.total_ul < last_ul)
               \/ (point.total_dl > 0 /\ point.total_dl < last_dl)
               \/ (point.total_ul = 0 /\ last_ul > 0)
               \/ (point.total_dl = 0 /\ last_dl > 0)
    ELSE TRUE

\* last_records after a data point that becomes the reference whether it was
\* inserted or not
LastRecordsAfter_Always(x, last_records) ==
    Overwrite(last_records,
        [d \in {x.point.downloader_id} |->
            [cumulative_uploaded |-> x.point.total_ul,
             cumulative_downloaded |-> x.point.total_dl,
             stat_datetime |-> x.timestamp]])

\* last_records after one data point of the loop of lines 569-621: lines
\* 616-621 are inside if should_insert
LastRecordsAfter(x, last_records) ==
    IF ShouldInsert(x.point, last_records)
    THEN Overwrite(last_records,
             [d \in {x.point.downloader_id} |->
                 [cumulative_uploaded |-> x.point.total_ul,
                  cumulative_downloaded |-> x.point.total_dl,
                  stat_datetime |-> x.timestamp]])
    ELSE last_records

\* the second step of _flush_traffic_buffer_to_db: params_to_insert
RECURSIVE ParamsToInsert(_, _)
ParamsToInsert(samples, last_records) ==
    IF samples = <<>>
    THEN <<>>
    ELSE LET x == Head(samples)
             rest == ParamsToInsert(Tail(samples), LastRecordsAfter(x, last_records))
         IN  IF ShouldInsert(x.point, last_records)
             THEN <<x>> \o rest
             ELSE rest

\* executemany of the INSERT ... ON CONFLICT DO UPDATE, one parameter row after the other
RECURSIVE InsertTrafficRows(_, _)
InsertTrafficRows(TS, params) ==
    IF params = <<>>
    THEN TS
    ELSE InsertTrafficRows(
            Overwrite(TS,
                [k \in {<<Head(params).timestamp, Head(params).point.downloader_id>>} |->
                    [uploaded |-> 0, downloaded |-> 0,
                     upload_speed |-> Head(params).point.ul_speed,
                     download_speed |-> Head(params).point.dl_speed,
                     cumulative_uploaded |-> Head(params).point.total_ul,
                     cumulative_downloaded |-> Head(params).point.total_dl]]),
            Tail(params))

\* _flush_traffic_buffer_to_db; fails = TRUE when a statement raises and the
\* transaction is rolled back
_flush_traffic_buffer_to_db(TS, buffer, fails) ==
    LET samples == FilteredSamples(buffer)
        downloader_ids == {samples[k].point.downloader_id : k \in 1..Len(samples)}
        last_records == LastRecords(TS, downloader_ids)
        params == ParamsToInsert(samples, last_records)
    IN  IF samples = <<>> \/ fails
        THEN TS
        ELSE InsertTrafficRows(TS, params)

---------------------------------------------------------------------------
(* Startup rebuilder *)

\* int(size or 0), seeders or 0, uploaded or 0: the integer columns are never
\* NULL in the model
IntOrZero(v) == IF v \in Int THEN v ELSE 0

\* the key (name or "", size) the rebuild groups rows by
AggregateKey(r) == <<OrEmpty(r.name), IntOrZero(r.size)>>

\* enabled_downloader_ids of _startup_rebuild_aggregated_groups_once
EnabledDownloaderIds(downloaders) == {downloaders[k].id : k \in 1..Len(downloaders)}

\* active_groups: the keys of the rows whose hash is active
ActiveGroups(T, active) == {AggregateKey(T[k]) : k \in {k2 \in DOMAIN T : k2[1] \in active}}

\* RebuildGroups that asks for a kept row in the group
RebuildGroups_WithKeptRow(T, active, enabled_ids) ==
    {AggregateKey(T[k]) : k \in {k2 \in DOMAIN T :
        /\ \E k3 \in DOMAIN T : /\ AggregateKey(T[k3]) = AggregateKey(T[k2])
                                /\ k3[1] \in active /\ k3[2] \in enabled_ids
        /\ (k2[1] \notin active \/ k2[2] \notin enabled_ids)}}

\* rebuild_groups: the active groups with a row whose hash is not active or
\* whose downloader is not enabled
RebuildGroups(T, active, enabled_ids) ==
    {AggregateKey(T[k]) : k \in {k2 \in DOMAIN T :
        /\ AggregateKey(T[k2]) \in ActiveGroups(T, active)
        /\ (k2[1] \notin active \/ k2[2] \notin enabled_ids)}}

\* keep_pairs: the rows of the rebuilt groups that are inserted again
KeepPairs(delete_pairs, active, enabled_ids) ==
    {k \in delete_pairs : k[1] \in active /\ k[2] \in enabled_ids}

\* one tuple of keep_torrent_params as the row the INSERT makes of it: the
\* twelve columns named, iyuu_last_check at its default
KeepTorrentParams(r) ==
    [name |-> r.name, save_path |-> r.save_path, size |-> r.size,
     progress |-> r.progress, state |-> r.state,
     sites |-> OrEmpty(r.sites), details |-> OrEmpty(r.details),
     group |-> OrEmpty(r.group), last_seen |-> r.last_seen,
     seeders |-> IntOrZero(r.seeders), iyuu_last_check |-> None]

\* The working copies of the two tables inside the transaction of the rebuild,
\* after 0, 1, 2, 3 and 4 of its statements: delete from torrents, delete from
\* torrent_upload_stats, insert the kept rows, upsert the kept statistics.
RebuildSteps(T, S, delete_pairs, keep_pairs) ==
    LET t1 == Without(T, delete_pairs)
        s2 == Without(S, delete_pairs)
        t3 == Overwrite(t1, [k \in keep_pairs |-> KeepTorrentParams(T[k])])
        s4 == Overwrite(s2, [k \in keep_pairs \cap DOMAIN S |-> IntOrZero(S[k])])
    IN  << [t |-> T, s |-> S], [t |-> t1, s |-> S], [t |-> t1, s |-> s2],
           [t |-> t3, s |-> s2], [t |-> t3, s |-> s4] >>

NoRebuild ==
    [outcome |-> "none", calls |-> 0, active_hashes |-> {}, before |-> EmptyTable,
     stats_before |-> EmptyTable, rebuild_groups |-> {}, delete_pairs |-> {},
     keep_pairs |-> {}]

\* _startup_rebuild_aggregated_groups_once; failed_after = -1 when no statement
\* fails, else the number of statements that completed before the exception
_startup_rebuild_aggregated_groups_once(T, S, active, downloaders, failed_after) ==
    LET enabled_downloader_ids == EnabledDownloaderIds(downloaders)
        rebuild_groups == RebuildGroups(T, active, enabled_downloader_ids)
        delete_pairs == {k \in DOMAIN T : AggregateKey(T[k]) \in rebuild_groups}
        keep_pairs == KeepPairs(delete_pairs, active, enabled_downloader_ids)
        steps == RebuildSteps(T, S, delete_pairs, keep_pairs)
        locals == [outcome |-> "nothing", calls |-> 0, active_hashes |-> active, before |-> T,
                   stats_before |-> S, rebuild_groups |-> rebuild_groups,
                   delete_pairs |-> delete_pairs, keep_pairs |-> keep_pairs]
    IN  IF enabled_downloader_ids = {} \/ active = {}
        THEN [store |-> steps[1],
              locals |-> [locals EXCEPT !.rebuild_groups = {}, !.delete_pairs = {},
                                        !.keep_pairs = {}]]
        ELSE IF failed_after # -1
             THEN [store |-> Rollback(steps[1], steps[failed_after + 1]),
                   locals |-> [locals EXCEPT !.outcome = "rolled_back"]]
             ELSE IF rebuild_groups = {}
                  THEN [store |-> steps[1], locals |-> locals]
                  ELSE [store |-> steps[5],
                        locals |-> [locals EXCEPT !.outcome = "committed"]]

---------------------------------------------------------------------------
(* update_torrents_in_db, one step per enabled downloader *)

NoCall ==
    [downloader_id |-> None, outcome |-> "none",
     current_torrents |-> EmptyTable, db_torrents |-> EmptyTable,
     new_torrents |-> {}, updated_torrents |-> {},
     old_hash_for_replacement |-> EmptyTable, old_rows_for_replacement |-> EmptyTable,
     deleted_hashes |-> {}, seeding_names |-> {}, hashes_to_delete |-> {},
     fetch_error |-> "none"]

NoTotals == [new |-> 0, updated |-> 0, deleted |-> 0]

\* NextPc of a loop that ends at its first iteration
NextPc_Break == "cleanup"

\* the for loop over enabled_downloaders: the next iteration, or the code after it
NextPc == IF loop_i = Len(enabled_downloaders) THEN "cleanup" ELSE "loop"

\* the head of update_torrents_in_db, up to the for loop
BeginUpdate ==
    /\ pc = "idle"
    /\ Len(enabled_downloaders) > 0
    /\ all_db_attribute_index' = _build_torrents_attribute_index_from_db(torrents)
    /\ all_active_hashes' = {}
    /\ totals' = NoTotals
    /\ loop_i' = 1
    /\ pc' = "loop"
    /\ pass_error' = FALSE
    /\ call' = NoCall
    /\ UNCHANGED <<config, db_type, torrents, torrent_upload_stats, client_torrents, now,
                   clients_unchanged, traffic_vars, run_vars, main_vars, lifecycle_vars, dedup, connector_vars, lock_vars>>

\* the ways the fetch of _update_downloader_torrents_incremental fails
FetchErrors == {"proxy", "connect", "listing"}

\* self.clients after a failed listing call: _get_client has cached the handle
\* and the except of lines 1122-1125 leaves it in place
ClientsAfterListingError(downloader_id) == clients \cup {downloader_id}

\* _update_downloader_torrents_incremental returns (0, 0, 0, set()) before any
\* database access: the proxy answered None ("proxy"), _get_client could not
\* make a handle and returned None ("connect"), or the listing call raised
\* ("listing")
FetchFailure(kind) ==
    /\ pc = "loop"
    /\ LET downloader_id == enabled_downloaders[loop_i].id
       IN  /\ kind = "proxy" => downloader_id \in use_proxy
           /\ kind # "proxy" => downloader_id \notin use_proxy
           /\ kind = "connect" => downloader_id \notin clients
           /\ clients' = IF kind = "listing"
                         THEN ClientsAfterListingError(downloader_id)
                         ELSE clients
           /\ call' = [NoCall EXCEPT !.downloader_id = downloader_id,
                                     !.outcome = "fetch_failed",
                                     !.fetch_error = kind]
    /\ pass_error' = TRUE
    /\ loop_i' = loop_i + 1
    /\ pc' = NextPc
    /\ UNCHANGED <<config, db_type, torrents, torrent_upload_stats, client_torrents, now,
                   all_db_attribute_index, all_active_hashes, totals, clients_unchanged,
                   traffic_vars, run_vars, main_vars, lifecycle_vars, dedup, use_proxy, lock_vars>>

FetchFails == \E kind \in FetchErrors : FetchFailure(kind)

\* _update_downloader_torrents_incremental with a snapshot: compare, then
\* _process_torrent_changes when something changed
Reconcile(failed_after) ==
    /\ pc = "loop"
    /\ LET downloader_id == enabled_downloaders[loop_i].id
           current_torrents == client_torrents[downloader_id]
           db_torrents == _get_downloader_torrents_from_db(torrents, downloader_id)
       IN  \E db_attribute_to_hash \in DbAttributeMaps(db_torrents) :
             LET plan == _compare_torrent_changes(current_torrents, db_torrents,
                             downloader_id, all_db_attribute_index, db_attribute_to_hash)
                 changes == plan.new_torrents # {} \/ plan.updated_torrents # {}
                                \/ plan.deleted_hashes # {}
                 res == _process_torrent_changes(torrents, torrent_upload_stats,
                             downloader_id, plan, current_torrents, strftime(now), db_type,
                             failed_after)
                 locals == [downloader_id |-> downloader_id, outcome |-> "no_changes",
                            current_torrents |-> current_torrents,
                            db_torrents |-> db_torrents,
                            new_torrents |-> plan.new_torrents,
                            updated_torrents |-> plan.updated_torrents,
                            old_hash_for_replacement |-> plan.old_hash_for_replacement,
                            old_rows_for_replacement |-> plan.old_rows_for_replacement,
                            deleted_hashes |-> plan.deleted_hashes,
                            seeding_names |-> SeedingNames(torrents),
                            hashes_to_delete |-> {}, fetch_error |-> "none"]
             IN  /\ IF changes
                    THEN /\ torrents' = res.store.t
                         /\ torrent_upload_stats' = res.store.s
                         /\ totals' = [new |-> totals.new + res.new_count,
                                       updated |-> totals.updated + res.updated_count,
                                       deleted |-> totals.deleted + res.deleted_count]
                         /\ call' = [locals EXCEPT
                                !.outcome = res.outcome,
                                !.hashes_to_delete =
                                    HashesToDelete(torrents, downloader_id,
                                                   plan.deleted_hashes)]
                         /\ pass_error' = (pass_error \/ res.outcome = "rolled_back")
                    ELSE /\ failed_after = -1
                         /\ call' = locals
                         /\ UNCHANGED <<torrents, torrent_upload_stats, totals, pass_error>>
                 /\ all_active_hashes' = all_active_hashes \cup DOMAIN current_torrents
                 /\ clients' = IF downloader_id \in use_proxy
                               THEN clients
                               ELSE clients \cup {downloader_id}
    /\ loop_i' = loop_i + 1
    /\ pc' = NextPc
    /\ UNCHANGED <<config, db_type, client_torrents, now, all_db_attribute_index, clients_unchanged,
                   traffic_vars, run_vars, main_vars, lifecycle_vars, dedup, use_proxy, lock_vars>>

ReconcileCommits == Reconcile(-1)

ReconcileRollsBack == \E failed_after \in 0..3 : Reconcile(failed_after)

\* the call of _cleanup_deleted_downloaders that ends update_torrents_in_db
CleanupDeletedDownloaders ==
    /\ pc = "cleanup"
    /\ torrents' = _cleanup_deleted_downloaders(torrents)
    /\ pc' = "done"
    /\ UNCHANGED <<config, db_type, torrent_upload_stats, client_torrents, now, loop_i,
                   all_db_attribute_index, all_active_hashes, totals, call, pass_error,
                   clients_unchanged, traffic_vars, run_vars, main_vars, lifecycle_vars, dedup, connector_vars, lock_vars>>

\* _cleanup_deleted_downloaders fails in a statement: the except clause rolls
\* back and the function returns
CleanupRollsBack ==
    /\ pc = "cleanup"
    /\ pc' = "done"
    /\ UNCHANGED <<config, db_type, torrents, torrent_upload_stats, client_torrents, now, loop_i,
                   all_db_attribute_index, all_active_hashes, totals, call, pass_error,
                   clients_unchanged, traffic_vars, run_vars, main_vars, lifecycle_vars, dedup, connector_vars, lock_vars>>

\* update_torrents_in_db with no enabled downloader: return set(), [] at line 1013
UpdateSkips ==
    /\ pc = "idle"
    /\ Len(enabled_downloaders) = 0
    /\ pc' = "done"
    /\ UNCHANGED <<config, db_type, torrents, torrent_upload_stats, client_torrents, now, loop_i,
                   all_db_attribute_index, all_active_hashes, totals, call, pass_error,
                   clients_unchanged, traffic_vars, run_vars, main_vars, lifecycle_vars, dedup, connector_vars, lock_vars>>

\* update_torrents_in_db returns all_active_hashes, enabled_downloaders
ReturnFromUpdate ==
    /\ pc = "done"
    /\ pc' = "idle"
    /\ loop_i' = 0
    /\ all_db_attribute_index' = {}
    /\ all_active_hashes' = {}
    /\ totals' = NoTotals
    /\ call' = NoCall
    /\ pass_error' = FALSE
    /\ clients_unchanged' = ~pass_error
    /\ UNCHANGED <<config, db_type, torrents, torrent_upload_stats, client_torrents, now,
                   traffic_vars, run_vars, main_vars, lifecycle_vars, dedup, connector_vars, lock_vars>>

\* a download client gains, loses or changes one torrent between two passes
ClientChanges(infos) ==
    /\ pc = "idle"
    /\ \E d \in DOMAIN infos : \E h \in ClientHashes[d] :
         \/ /\ h \in DOMAIN client_torrents[d]
            /\ client_torrents' =
                  [client_torrents EXCEPT ![d] = Without(client_torrents[d], {h})]
         \/ \E info \in infos[d] :
              /\ IF h \in DOMAIN client_torrents[d]
                 THEN client_torrents[d][h] # info
                 ELSE TRUE
              /\ client_torrents' =
                    [client_torrents EXCEPT ![d] =
                        Overwrite(client_torrents[d], [x \in {h} |-> info])]
    /\ clients_unchanged' = FALSE
    /\ UNCHANGED <<config, db_type, torrents, torrent_upload_stats, now, pc, loop_i,
                   all_db_attribute_index, all_active_hashes, totals, call, pass_error,
                   traffic_vars, run_vars, main_vars, lifecycle_vars, dedup, connector_vars, lock_vars>>

\* the torrents the clients hold in the reconciliation runs
ReconcileInfos ==
    [d \in EnabledIds |->
        IF d = "X"
        THEN {TorrentInfo("Foo", "/d", "uploading", "S", 10000, 1, 5),
              TorrentInfo("Foo", "/d", "stalledUP", "S", 10000, 1, 5),
              TorrentInfo("Foo", "/d", "pausedUP", "S", 10000, 1, 5)}
        ELSE {TorrentInfo("Foo", "/d", "uploading", "S", 10000, 1, 5),
              TorrentInfo("Foo", "/d", "stalledUP", "S", 10000, 1, 5)}]

ClientsChange == ClientChanges(ReconcileInfos)

NoFlush == [outcome |-> "none", rejected |-> {}, batch |-> <<>>]

\* the samples of a buffer that pass the filter and are not in params_to_insert
RejectedSamples(TS, buffer) ==
    LET samples == FilteredSamples(buffer)
        downloader_ids == {samples[k].point.downloader_id : k \in 1..Len(samples)}
        params == ParamsToInsert(samples, LastRecords(TS, downloader_ids))
    IN  {samples[k] : k \in 1..Len(samples)} \ {params[k] : k \in 1..Len(params)}

\* the call of _flush_traffic_buffer_to_db and the emptying of the buffer after it
FlushAndClear(buffer, fails) ==
    /\ traffic_stats' = _flush_traffic_buffer_to_db(traffic_stats, buffer, fails)
    /\ traffic_buffer' = <<>>
    /\ last_flush' =
          IF FilteredSamples(buffer) = <<>>
          THEN [outcome |-> "skipped", rejected |-> {}, batch |-> buffer]
          ELSE IF fails
               THEN [outcome |-> "rolled_back", rejected |-> {}, batch |-> buffer]
               ELSE [outcome |-> "committed",
                     rejected |-> RejectedSamples(traffic_stats, buffer),
                     batch |-> buffer]

\* one pass of the loop of run: _fetch_and_buffer_stats, then the wait
FetchAndBufferStats(fails) ==
    /\ _is_running
    /\ Len(enabled_downloaders) > 0
    /\ strftime(now) <= MaxNow
    /\ \E answers \in {f \in [EnabledIds -> UNION {TrafficAnswers[d] : d \in EnabledIds}] :
                          \A d \in EnabledIds : f[d] \in TrafficAnswers[d]} :
          LET buffer == Append(traffic_buffer,
                               [timestamp |-> strftime(now), points |-> DataPoints(answers)])
          IN  /\ IF Len(buffer) >= TRAFFIC_BATCH_WRITE_SIZE
                 THEN FlushAndClear(buffer, fails /\ FilteredSamples(buffer) # <<>>)
                 ELSE /\ ~fails
                      /\ traffic_buffer' = buffer
                      /\ UNCHANGED <<traffic_stats, last_flush>>
              /\ clients' = ClientsAfterStats(answers)
    /\ now' \in {now + 1, now + 2}
    /\ UNCHANGED <<config, db_type, torrent_vars, _is_running, run_vars, main_vars, lifecycle_vars,
                   dedup, use_proxy, lock_vars>>

FetchAndBuffer == FetchAndBufferStats(FALSE)

FetchAndBufferFlushFails == FetchAndBufferStats(TRUE)

\* DataTracker.stop
stop(fails) ==
    /\ _is_running
    /\ _is_running' = FALSE
    /\ IF traffic_buffer # <<>>
       THEN FlushAndClear(traffic_buffer, fails /\ FilteredSamples(traffic_buffer) # <<>>)
       ELSE /\ ~fails
            /\ UNCHANGED <<traffic_stats, traffic_buffer, last_flush>>
    /\ UNCHANGED <<config, db_type, torrent_vars, now, run_vars, main_vars, lifecycle_vars, dedup, connector_vars, lock_vars>>

Stop == \E fails \in BOOLEAN : stop(fails)

InitTraffic ==
    /\ traffic_stats = EmptyTable
    /\ traffic_buffer = <<>>
    /\ last_flush = NoFlush
    /\ _is_running = TRUE

---------------------------------------------------------------------------
(* values at rest *)

NoTick == [timestamp |-> None, points |-> <<>>]

NoMainPass == [loop_i |-> 0, index |-> {}]

InitMain ==
    /\ main_pc = "none"
    /\ main_pass = NoMainPass

\* the threads that call start_data_tracker and stop_data_tracker
Callers == {1, 2}

\* the module global data_tracker_thread is 0 for None and otherwise the
\* position in threads of the instance it refers to
InitLifecycle ==
    /\ data_tracker_thread = 0
    /\ threads = <<>>
    /\ callers = [c \in Callers |-> "idle"]

NoDedup ==
    [outcome |-> "none", active_hashes |-> {}, before |-> EmptyTable,
     stats_before |-> EmptyTable, to_delete |-> {}]

InitDedup == dedup = NoDedup

\* no handle is cached after __init__; no downloader is configured with a proxy
InitConnectors ==
    /\ clients = {}
    /\ use_proxy = {}

NoHanded == [ids |-> <<>>, log |-> <<>>, appended |-> 0]

\* the lock is free after __init__
InitLock ==
    /\ traffic_buffer_lock = "free"
    /\ handed = NoHanded

---------------------------------------------------------------------------
(* DataTracker.run: the startup section *)

\* AfterStartupError of a run without the try of line 292: the thread dies
AfterStartupError_Propagates == "exited"

\* except Exception of line 309: an error of the startup section leads to the loop
AfterStartupError == "loop"

\* run up to the test of line 299: the refresh is started when a downloader is
\* enabled and the rebuild has not been done
StartupBegins ==
    /\ run_pc = "sleep"
    /\ run_pc' = IF Len(enabled_downloaders) > 0 /\ ~_startup_agg_rebuild_done
                 THEN "refresh"
                 ELSE "loop"
    /\ UNCHANGED <<config, db_type, torrent_vars, now, traffic_vars, _startup_agg_rebuild_done,
                   active_hashes, rebuild, tick, shutdown_event, stop_pc,
                   aggregation_counter, main_vars, lifecycle_vars, dedup, connector_vars, lock_vars>>

\* the RuntimeError of line 295, or config_manager.get() raising: the except of
\* line 309 leads to the loop
StartupSkipped ==
    /\ run_pc = "sleep"
    /\ run_pc' = AfterStartupError
    /\ UNCHANGED <<config, db_type, torrent_vars, now, traffic_vars, _startup_agg_rebuild_done,
                   active_hashes, rebuild, tick, shutdown_event, stop_pc,
                   aggregation_counter, main_vars, lifecycle_vars, dedup, connector_vars, lock_vars>>

\* update_torrents_in_db raises before its loop (load_site_maps_from_db)
StartupRefreshRaises ==
    /\ run_pc = "refresh"
    /\ pc = "idle"
    /\ run_pc' = AfterStartupError
    /\ pass_error' = TRUE
    /\ UNCHANGED <<config, db_type, torrents, torrent_upload_stats, client_torrents, now, pc, loop_i,
                   all_db_attribute_index, all_active_hashes, totals, call,
                   clients_unchanged, traffic_vars, _startup_agg_rebuild_done,
                   active_hashes, rebuild, tick, shutdown_event, stop_pc,
                   aggregation_counter, main_vars, lifecycle_vars, dedup, connector_vars, lock_vars>>

\* the steps of the update_torrents_in_db that run calls at line 301
StartupRefreshStep ==
    /\ run_pc = "refresh"
    /\ \/ BeginUpdate
       \/ FetchFails
       \/ ReconcileCommits
       \/ ReconcileRollsBack
       \/ CleanupDeletedDownloaders

\* update_torrents_in_db returns to run: lines 301-302, and line 308 when no
\* hash is active
StartupRefreshReturns ==
    /\ run_pc = "refresh"
    /\ pc = "done"
    /\ active_hashes' = all_active_hashes
    /\ pc' = "idle"
    /\ loop_i' = 0
    /\ all_db_attribute_index' = {}
    /\ all_active_hashes' = {}
    /\ totals' = NoTotals
    /\ call' = NoCall
    /\ IF all_active_hashes # {}
       THEN run_pc' = "rebuild" /\ UNCHANGED _startup_agg_rebuild_done
       ELSE run_pc' = "loop" /\ _startup_agg_rebuild_done' = TRUE
    /\ UNCHANGED <<config, db_type, torrents, torrent_upload_stats, client_torrents, now,
                   pass_error, clients_unchanged, traffic_vars, rebuild, tick,
                   shutdown_event, stop_pc, aggregation_counter, main_vars,
                   lifecycle_vars, dedup, connector_vars, lock_vars>>

\* lines 303-308: the rebuild, committed, without work, or rolled back
StartupRebuild(failed_after) ==
    /\ run_pc = "rebuild"
    /\ LET res == _startup_rebuild_aggregated_groups_once(torrents, torrent_upload_stats,
                      active_hashes, enabled_downloaders, failed_after)
       IN  /\ failed_after > 0 => res.locals.rebuild_groups # {}
           /\ torrents' = res.store.t
           /\ torrent_upload_stats' = res.store.s
           /\ rebuild' = [res.locals EXCEPT !.calls = rebuild.calls + 1]
    /\ _startup_agg_rebuild_done' = TRUE
    /\ run_pc' = "loop"
    /\ UNCHANGED <<config, db_type, client_torrents, now, pc, loop_i, all_db_attribute_index,
                   all_active_hashes, totals, call, pass_error, clients_unchanged,
                   traffic_vars, active_hashes, tick, shutdown_event, stop_pc,
                   aggregation_counter, main_vars, lifecycle_vars, dedup, connector_vars, lock_vars>>

StartupRebuildCommits == StartupRebuild(-1)

StartupRebuildRollsBack == \E failed_after \in 0..3 : StartupRebuild(failed_after)

\* _get_cursor raises inside the rebuild: the finally clause of line 995 reads
\* the unbound cursor, the error leaves the function and the except of line 309
\* catches it before line 308
StartupRebuildRaises ==
    /\ run_pc = "rebuild"
    /\ rebuild' = [NoRebuild EXCEPT !.outcome = "raised", !.calls = rebuild.calls + 1,
                                    !.active_hashes = active_hashes,
                                    !.before = torrents,
                                    !.stats_before = torrent_upload_stats]
    /\ run_pc' = AfterStartupError
    /\ UNCHANGED <<config, db_type, torrent_vars, now, traffic_vars, _startup_agg_rebuild_done,
                   active_hashes, tick, shutdown_event, stop_pc, aggregation_counter,
                   main_vars, lifecycle_vars, dedup, connector_vars, lock_vars>>

\* the rows a previous run of the process may have left in the store
StartupRows ==
    LET row == [name |-> "Foo", save_path |-> "/d", size |-> 100, progress |-> 1000,
                state |-> "seeding", sites |-> "S", details |-> "", group |-> None,
                last_seen |-> 0, seeders |-> 1, iyuu_last_check |-> None]
    IN  {row,
         [row EXCEPT !.save_path = "/e", !.state = "not_seeding", !.iyuu_last_check = "c"],
         [row EXCEPT !.name = "Bar"]}

StartupKeys == {<<"hA", "X">>, <<"hB", "X">>, <<"hA", "Y">>, <<"hA", "Z">>}

\* the torrent the clients hold when the process starts
StartupInfo == TorrentInfo("Foo", "/d", "uploading", "S", 10000, 1, 5)

InitRun ==
    /\ run_pc = "sleep"
    /\ _startup_agg_rebuild_done = FALSE
    /\ active_hashes = {}
    /\ rebuild = NoRebuild
    /\ tick = NoTick
    /\ shutdown_event = FALSE
    /\ stop_pc = "none"
    /\ aggregation_counter = 0

InitRest ==
    /\ InitRun
    /\ InitMain
    /\ InitLifecycle
    /\ InitDedup
    /\ InitConnectors
    /\ InitLock

InitStartup ==
    /\ InitConfig
    /\ db_type = "sqlite"
    /\ \E keys \in SUBSET StartupKeys : \E rows \in [keys -> StartupRows] :
          /\ torrents = rows
          /\ torrent_upload_stats = [k \in keys |-> 3]
    /\ \E held \in [EnabledIds -> SUBSET Hashes] :
          /\ \A d \in EnabledIds : held[d] \subseteq ClientHashes[d]
          /\ client_torrents =
                [d \in DownloaderIds |->
                    IF d \in EnabledIds THEN [h \in held[d] |-> StartupInfo] ELSE EmptyTable]
    /\ now = 2
    /\ pc = "idle"
    /\ loop_i = 0
    /\ all_db_attribute_index = {}
    /\ all_active_hashes = {}
    /\ totals = NoTotals
    /\ call = NoCall
    /\ pass_error = FALSE
    /\ clients_unchanged = FALSE
    /\ InitTraffic
    /\ InitRest

NextStartup ==
    \/ StartupBegins
    \/ StartupSkipped
    \/ StartupRefreshRaises
    \/ StartupRefreshStep
    \/ StartupRefreshReturns
    \/ StartupRebuildCommits
    \/ StartupRebuildRollsBack
    \/ StartupRebuildRaises

SpecStartup == InitStartup /\ [][NextStartup]_vars

\* the thread is scheduled until it reaches the loop: every call of the startup
\* section returns (the connectors have timeouts)
SpecStartupFair == SpecStartup /\ WF_vars(NextStartup)

---------------------------------------------------------------------------
(* DataTracker.run: the loop, and DataTracker.stop called from another thread *)

\* AGGREGATION_INTERVAL, scaled down from 21600
AGGREGATION_INTERVAL == 2

\* AfterTickError of a loop without the try of line 326: the thread dies
AfterTickError_Propagates == "exited"

\* except Exception of line 347: an error inside a tick leads to the wait
AfterTickError == "wait"

\* while self._is_running, then _fetch_and_buffer_stats up to line 500: the
\* statistics calls, outside the lock
TickFetch ==
    /\ run_pc = "loop"
    /\ _is_running
    /\ Len(enabled_downloaders) > 0
    /\ strftime(now) <= MaxNow
    /\ \E answers \in {f \in [EnabledIds -> UNION {TrafficAnswers[d] : d \in EnabledIds}] :
                          \A d \in EnabledIds : f[d] \in TrafficAnswers[d]} :
          /\ tick' = [timestamp |-> strftime(now), points |-> DataPoints(answers)]
          /\ clients' = ClientsAfterStats(answers)
    /\ run_pc' = "buffer"
    /\ UNCHANGED <<config, db_type, torrent_vars, now, traffic_vars, _startup_agg_rebuild_done,
                   active_hashes, rebuild, shutdown_event, stop_pc, aggregation_counter,
                   main_vars, lifecycle_vars, dedup, use_proxy, lock_vars>>

\* _fetch_and_buffer_stats raises outside the per-client try (config_manager.get())
TickRaises ==
    /\ run_pc = "loop"
    /\ _is_running
    /\ strftime(now) <= MaxNow
    /\ run_pc' = AfterTickError
    /\ UNCHANGED <<config, db_type, torrent_vars, now, traffic_vars, _startup_agg_rebuild_done,
                   active_hashes, rebuild, tick, shutdown_event, stop_pc,
                   aggregation_counter, main_vars, lifecycle_vars, dedup, connector_vars, lock_vars>>

\* while self._is_running is false: run returns
LoopExits ==
    /\ run_pc = "loop"
    /\ ~_is_running
    /\ run_pc' = "exited"
    /\ UNCHANGED <<config, db_type, torrent_vars, now, traffic_vars, _startup_agg_rebuild_done,
                   active_hashes, rebuild, tick, shutdown_event, stop_pc,
                   aggregation_counter, main_vars, lifecycle_vars, dedup, connector_vars, lock_vars>>

\* lines 501-505 under traffic_buffer_lock: append, and flush and clear at the
\* batch size
TickBuffer(fails) ==
    /\ run_pc = "buffer"
    /\ LET buffer == Append(traffic_buffer, tick)
       IN  IF Len(buffer) >= TRAFFIC_BATCH_WRITE_SIZE
           THEN FlushAndClear(buffer, fails /\ FilteredSamples(buffer) # <<>>)
           ELSE /\ ~fails
                /\ traffic_buffer' = buffer
                /\ UNCHANGED <<traffic_stats, last_flush>>
    /\ tick' = NoTick
    /\ run_pc' = "aggregate"
    /\ UNCHANGED <<config, db_type, torrent_vars, now, _is_running, _startup_agg_rebuild_done,
                   active_hashes, rebuild, shutdown_event, stop_pc, aggregation_counter,
                   main_vars, lifecycle_vars, dedup, connector_vars, lock_vars>>

TickBuffers == TickBuffer(FALSE)

TickFlushRollsBack == TickBuffer(TRUE)

\* _get_cursor raises inside _flush_traffic_buffer_to_db: the finally clause of
\* line 634 reads the unbound cursor, the error leaves the function before
\* line 505 and is caught at line 347
TickFlushRaises ==
    /\ run_pc = "buffer"
    /\ LET buffer == Append(traffic_buffer, tick)
       IN  /\ Len(buffer) >= TRAFFIC_BATCH_WRITE_SIZE
           /\ FilteredSamples(buffer) # <<>>
           /\ traffic_buffer' = buffer
           /\ last_flush' = [outcome |-> "raised", rejected |-> {}, batch |-> buffer]
    /\ tick' = NoTick
    /\ run_pc' = AfterTickError
    /\ UNCHANGED <<config, db_type, torrent_vars, now, traffic_stats, _is_running,
                   _startup_agg_rebuild_done, active_hashes, rebuild, shutdown_event,
                   stop_pc, aggregation_counter, main_vars, lifecycle_vars, dedup, connector_vars, lock_vars>>

\* lines 337-346: the counter, and the hourly rollup when it is due; an error of
\* the rollup is logged
TickAggregate ==
    /\ run_pc = "aggregate"
    /\ aggregation_counter' =
          IF aggregation_counter + interval >= AGGREGATION_INTERVAL
          THEN 0
          ELSE aggregation_counter + interval
    /\ run_pc' = "wait"
    /\ UNCHANGED <<config, db_type, torrent_vars, now, traffic_vars, _startup_agg_rebuild_done,
                   active_hashes, rebuild, tick, shutdown_event, stop_pc, main_vars,
                   lifecycle_vars, dedup, connector_vars, lock_vars>>

\* shutdown_event.wait returns true: break
WaitBreaks ==
    /\ run_pc = "wait"
    /\ shutdown_event
    /\ run_pc' = "exited"
    /\ UNCHANGED <<config, db_type, torrent_vars, now, traffic_vars, _startup_agg_rebuild_done,
                   active_hashes, rebuild, tick, shutdown_event, stop_pc,
                   aggregation_counter, main_vars, lifecycle_vars, dedup, connector_vars, lock_vars>>

\* the wait times out, or the tick took the whole interval and there is no wait
WaitElapses ==
    /\ run_pc = "wait"
    /\ strftime(now) <= MaxNow
    /\ now' \in {now + 1, now + 2}
    /\ run_pc' = "loop"
    /\ UNCHANGED <<config, db_type, torrent_vars, traffic_vars, _startup_agg_rebuild_done,
                   active_hashes, rebuild, tick, shutdown_event, stop_pc,
                   aggregation_counter, main_vars, lifecycle_vars, dedup, connector_vars, lock_vars>>

\* a stop() that sets the event and leaves the running flag as it is
StopSignals_EventOnly ==
    /\ stop_pc = "none"
    /\ run_pc # "exited"
    /\ shutdown_event' = TRUE
    /\ stop_pc' = "signalled"
    /\ UNCHANGED <<config, db_type, torrent_vars, now, traffic_vars,
                   run_pc, _startup_agg_rebuild_done, active_hashes, rebuild, tick,
                   aggregation_counter, main_vars, lifecycle_vars, dedup, connector_vars, lock_vars>>

\* DataTracker.stop, lines 2294-2295
StopSignals ==
    /\ stop_pc = "none"
    /\ run_pc # "exited"
    /\ _is_running' = FALSE
    /\ shutdown_event' = TRUE
    /\ stop_pc' = "signalled"
    /\ UNCHANGED <<config, db_type, torrent_vars, now, traffic_stats, traffic_buffer, last_flush,
                   run_pc, _startup_agg_rebuild_done, active_hashes, rebuild, tick,
                   aggregation_counter, main_vars, lifecycle_vars, dedup, connector_vars, lock_vars>>

\* DataTracker.stop, lines 2296-2299 under traffic_buffer_lock
StopFlush(fails) ==
    /\ stop_pc = "signalled"
    /\ IF traffic_buffer # <<>>
       THEN FlushAndClear(traffic_buffer, fails /\ FilteredSamples(traffic_buffer) # <<>>)
       ELSE /\ ~fails
            /\ UNCHANGED <<traffic_stats, traffic_buffer, last_flush>>
    /\ stop_pc' = "returned"
    /\ UNCHANGED <<config, db_type, torrent_vars, now, _is_running, run_pc,
                   _startup_agg_rebuild_done, active_hashes, rebuild, tick,
                   shutdown_event, aggregation_counter, main_vars, lifecycle_vars, dedup, connector_vars, lock_vars>>

StopFlushes == StopFlush(FALSE)

StopFlushRollsBack == StopFlush(TRUE)

InitLoop ==
    /\ InitConfig
    /\ db_type = "sqlite"
    /\ torrents = EmptyTable
    /\ torrent_upload_stats = EmptyTable
    /\ client_torrents = [d \in DownloaderIds |-> EmptyTable]
    /\ now = 2
    /\ pc = "idle"
    /\ loop_i = 0
    /\ all_db_attribute_index = {}
    /\ all_active_hashes = {}
    /\ totals = NoTotals
    /\ call = NoCall
    /\ pass_error = FALSE
    /\ clients_unchanged = FALSE
    /\ InitTraffic
    /\ run_pc = "loop"
    /\ _startup_agg_rebuild_done = TRUE
    /\ active_hashes = {}
    /\ rebuild = NoRebuild
    /\ tick = NoTick
    /\ shutdown_event = FALSE
    /\ stop_pc = "none"
    /\ aggregation_counter = 0
    /\ InitMain
    /\ InitLifecycle
    /\ InitDedup
    /\ clients = {}
    /\ use_proxy \in SUBSET {enabled_downloaders[1].id}
    /\ InitLock

NextLoop ==
    \/ TickFetch
    \/ TickRaises
    \/ LoopExits
    \/ TickBuffers
    \/ TickFlushRollsBack
    \/ TickFlushRaises
    \/ TickAggregate
    \/ WaitBreaks
    \/ WaitElapses
    \/ StopSignals
    \/ StopFlushes
    \/ StopFlushRollsBack

SpecLoop == InitLoop /\ [][NextLoop]_vars

\* the steps of the thread that executes run() between two ticks: the test of
\* the loop that fails, the wait that the event ends
RunSteps ==
    \/ LoopExits
    \/ WaitBreaks

\* the thread of run() is scheduled, and Event.wait returns when the event is set
SpecLoopFair == SpecLoop /\ WF_vars(RunSteps)

---------------------------------------------------------------------------
(* The main thread: start_background_services, then run_startup_refresh_task, *)
(* whose refresh is a pass of update_torrents_in_db over the same store       *)

\* the refresh of run_startup_refresh_task begins: the index is built
MainRefreshBegins ==
    /\ main_pc = "start"
    /\ main_pc' = "refreshing"
    /\ main_pass' = [loop_i |-> 1,
                     index |-> _build_torrents_attribute_index_from_db(torrents)]
    /\ UNCHANGED <<config, db_type, torrent_vars, now, traffic_vars, run_vars, lifecycle_vars,
                   dedup, connector_vars, lock_vars>>

\* one client of the main thread's pass is reconciled and committed
MainReconcile ==
    /\ main_pc = "refreshing"
    /\ main_pass.loop_i <= Len(enabled_downloaders)
    /\ LET downloader_id == enabled_downloaders[main_pass.loop_i].id
           current_torrents == client_torrents[downloader_id]
           db_torrents == _get_downloader_torrents_from_db(torrents, downloader_id)
       IN  \E db_attribute_to_hash \in DbAttributeMaps(db_torrents) :
             LET plan == _compare_torrent_changes(current_torrents, db_torrents,
                             downloader_id, main_pass.index, db_attribute_to_hash)
                 changes == plan.new_torrents # {} \/ plan.updated_torrents # {}
                                \/ plan.deleted_hashes # {}
                 res == _process_torrent_changes(torrents, torrent_upload_stats,
                             downloader_id, plan, current_torrents, strftime(now), db_type,
                             -1)
             IN  IF changes
                 THEN /\ torrents' = res.store.t
                      /\ torrent_upload_stats' = res.store.s
                 ELSE UNCHANGED <<torrents, torrent_upload_stats>>
    /\ main_pass' = [main_pass EXCEPT !.loop_i = main_pass.loop_i + 1]
    /\ UNCHANGED <<config, db_type, client_torrents, now, pc, loop_i, all_db_attribute_index,
                   all_active_hashes, totals, call, pass_error, clients_unchanged,
                   traffic_vars, run_vars, main_pc, lifecycle_vars, dedup, connector_vars, lock_vars>>

\* one client of the main thread's pass cannot be fetched, or its transaction
\* is rolled back
MainClientFails ==
    /\ main_pc = "refreshing"
    /\ main_pass.loop_i <= Len(enabled_downloaders)
    /\ main_pass' = [main_pass EXCEPT !.loop_i = main_pass.loop_i + 1]
    /\ UNCHANGED <<config, db_type, torrent_vars, now, traffic_vars, run_vars, main_pc,
                   lifecycle_vars, dedup, connector_vars, lock_vars>>

\* the main thread's pass ends with _cleanup_deleted_downloaders
MainRefreshEnds ==
    /\ main_pc = "refreshing"
    /\ main_pass.loop_i > Len(enabled_downloaders)
    /\ torrents' = _cleanup_deleted_downloaders(torrents)
    /\ main_pc' = "done"
    /\ main_pass' = NoMainPass
    /\ UNCHANGED <<config, db_type, torrent_upload_stats, client_torrents, now, pc, loop_i,
                   all_db_attribute_index, all_active_hashes, totals, call, pass_error,
                   clients_unchanged, traffic_vars, run_vars, lifecycle_vars, dedup, connector_vars, lock_vars>>

\* the process after start_background_services: the DataTracker thread is in
\* its sleep of line 289, the main thread is about to call
\* run_startup_refresh_task
InitOverlap ==
    /\ InitConfig
    /\ db_type = "sqlite"
    /\ \E keys \in SUBSET {<<"hA", "X">>} :
          /\ torrents = [k \in keys |-> CHOOSE r \in StartupRows : r.name = "Foo" /\ r.save_path = "/d"]
          /\ torrent_upload_stats = [k \in keys |-> 3]
    /\ \E held \in [EnabledIds -> SUBSET Hashes] :
          /\ \A d \in EnabledIds : held[d] \subseteq ClientHashes[d]
          /\ client_torrents =
                [d \in DownloaderIds |->
                    IF d \in EnabledIds THEN [h \in held[d] |-> StartupInfo] ELSE EmptyTable]
    /\ now = 2
    /\ pc = "idle"
    /\ loop_i = 0
    /\ all_db_attribute_index = {}
    /\ all_active_hashes = {}
    /\ totals = NoTotals
    /\ call = NoCall
    /\ pass_error = FALSE
    /\ clients_unchanged = FALSE
    /\ InitTraffic
    /\ InitRun
    /\ main_pc = "start"
    /\ main_pass = NoMainPass
    /\ InitLifecycle
    /\ InitDedup
    /\ InitConnectors
    /\ InitLock

NextOverlap ==
    \/ NextStartup
    \/ MainRefreshBegins
    \/ MainReconcile
    \/ MainClientFails
    \/ MainRefreshEnds

SpecOverlap == InitOverlap /\ [][NextOverlap]_vars

---------------------------------------------------------------------------
(* start_data_tracker and stop_data_tracker, called from several threads, in  *)
(* a process where the debug-monitor test of start_data_tracker is false      *)

\* DataTracker instances created in one behaviour
MaxThreads == 3

\* Thread.is_alive(): started and run() has not returned
is_alive(t) == threads[t] \in {"running", "stopping"}

AliveThreads == {t \in DOMAIN threads : is_alive(t)}

\* the test of line 2314
MayCreate == IF data_tracker_thread = 0 THEN TRUE ELSE ~is_alive(data_tracker_thread)

\* start_data_tracker, line 2314: the test passes (otherwise the call returns
\* the instance and changes nothing)
StartChecks(c) ==
    /\ callers[c] = "idle"
    /\ Len(threads) < MaxThreads
    /\ MayCreate
    /\ callers' = [callers EXCEPT ![c] = "start_create"]
    /\ UNCHANGED <<config, db_type, torrent_vars, now, traffic_vars, run_vars, main_vars,
                   data_tracker_thread, threads, dedup, connector_vars, lock_vars>>

\* start_data_tracker, line 2315: a new instance is created and bound to the
\* global
StartCreates(c) ==
    /\ callers[c] = "start_create"
    /\ Len(threads) < MaxThreads
    /\ threads' = Append(threads, "new")
    /\ data_tracker_thread' = Len(threads) + 1
    /\ callers' = [callers EXCEPT ![c] = "start_start"]
    /\ UNCHANGED <<config, db_type, torrent_vars, now, traffic_vars, run_vars, main_vars,
                   dedup, connector_vars, lock_vars>>

\* start_data_tracker, line 2316: start() of the instance the global refers to
\* now; AttributeError on None and RuntimeError on a started thread end the call
StartStarts(c) ==
    /\ callers[c] = "start_start"
    /\ LET t == data_tracker_thread
       IN  threads' =
             IF t = 0 THEN threads
             ELSE IF threads[t] = "new" THEN [threads EXCEPT ![t] = "running"]
             ELSE IF threads[t] = "new_stopped" THEN [threads EXCEPT ![t] = "stopping"]
             ELSE threads
    /\ callers' = [callers EXCEPT ![c] = "idle"]
    /\ UNCHANGED <<config, db_type, torrent_vars, now, traffic_vars, run_vars, main_vars,
                   data_tracker_thread, dedup, connector_vars, lock_vars>>

\* stop_data_tracker, line 2324
StopChecks(c) ==
    /\ callers[c] = "idle"
    /\ callers' = [callers EXCEPT ![c] =
                      IF data_tracker_thread # 0 /\ is_alive(data_tracker_thread)
                      THEN "stop_stop" ELSE "stop_clear"]
    /\ UNCHANGED <<config, db_type, torrent_vars, now, traffic_vars, run_vars, main_vars,
                   data_tracker_thread, threads, dedup, connector_vars, lock_vars>>

\* stop_data_tracker, line 2325: stop() of the instance the global refers to
\* now; AttributeError on None ends the call
StopStops(c) ==
    /\ callers[c] = "stop_stop"
    /\ LET t == data_tracker_thread
       IN  /\ threads' =
                IF t = 0 THEN threads
                ELSE IF threads[t] = "running" THEN [threads EXCEPT ![t] = "stopping"]
                ELSE IF threads[t] = "new" THEN [threads EXCEPT ![t] = "new_stopped"]
                ELSE threads
           /\ callers' = [callers EXCEPT ![c] = IF t = 0 THEN "idle" ELSE "stop_join"]
    /\ UNCHANGED <<config, db_type, torrent_vars, now, traffic_vars, run_vars, main_vars,
                   data_tracker_thread, dedup, connector_vars, lock_vars>>

\* stop_data_tracker, lines 2327-2332: join(timeout=2) returns when the thread
\* has ended or after two seconds with the thread still alive; AttributeError
\* on None and RuntimeError on a thread not started end the call
StopJoins(c) ==
    /\ callers[c] = "stop_join"
    /\ LET t == data_tracker_thread
       IN  callers' = [callers EXCEPT ![c] =
                          IF t = 0 \/ threads[t] \in {"new", "new_stopped"}
                          THEN "idle" ELSE "stop_clear"]
    /\ UNCHANGED <<config, db_type, torrent_vars, now, traffic_vars, run_vars, main_vars,
                   data_tracker_thread, threads, dedup, connector_vars, lock_vars>>

\* stop_data_tracker, line 2333
StopClears(c) ==
    /\ callers[c] = "stop_clear"
    /\ data_tracker_thread' = 0
    /\ callers' = [callers EXCEPT ![c] = "idle"]
    /\ UNCHANGED <<config, db_type, torrent_vars, now, traffic_vars, run_vars, main_vars,
                   threads, dedup, connector_vars, lock_vars>>

\* run() of a stopped instance returns: the while test of line 324 or the
\* break of line 356
ThreadExits(t) ==
    /\ threads[t] = "stopping"
    /\ threads' = [threads EXCEPT ![t] = "dead"]
    /\ UNCHANGED <<config, db_type, torrent_vars, now, traffic_vars, run_vars, main_vars,
                   data_tracker_thread, callers, dedup, connector_vars, lock_vars>>

InitThreads ==
    /\ InitConfig
    /\ db_type = "sqlite"
    /\ torrents = EmptyTable
    /\ torrent_upload_stats = EmptyTable
    /\ client_torrents = [d \in DownloaderIds |-> EmptyTable]
    /\ now = 2
    /\ pc = "idle"
    /\ loop_i = 0
    /\ all_db_attribute_index = {}
    /\ all_active_hashes = {}
    /\ totals = NoTotals
    /\ call = NoCall
    /\ pass_error = FALSE
    /\ clients_unchanged = FALSE
    /\ InitTraffic
    /\ InitRun
    /\ InitMain
    /\ InitLifecycle
    /\ InitDedup
    /\ InitConnectors
    /\ InitLock

NextThreads ==
    \/ \E c \in Callers : StartChecks(c)
    \/ \E c \in Callers : StartCreates(c)
    \/ \E c \in Callers : StartStarts(c)
    \/ \E c \in Callers : StopChecks(c)
    \/ \E c \in Callers : StopStops(c)
    \/ \E c \in Callers : StopJoins(c)
    \/ \E c \in Callers : StopClears(c)
    \/ \E t \in DOMAIN threads : ThreadExits(t)

SpecThreads == InitThreads /\ [][NextThreads]_vars

---------------------------------------------------------------------------
(* Deduplicator: _deduplicate_based_on_active *)

\* dict(row) of the SELECT of lines 666-670
RowDict(T, k) ==
    [hash |-> k[1], downloader_id |-> k[2], name |-> T[k].name,
     save_path |-> T[k].save_path, size |-> T[k].size, sites |-> T[k].sites,
     group |-> T[k].group, last_seen |-> T[k].last_seen]

\* the orders in which fetchall can return the rows: the SELECT has no ORDER BY
ReadOrders(T) ==
    {o \in [1..Cardinality(DOMAIN T) -> DOMAIN T] :
        \A i, j \in 1..Cardinality(DOMAIN T) : i # j => o[i] # o[j]}

\* attr_key of lines 678-689
attr_key(r) ==
    <<"attrs", Strip(OrEmpty(r.name)), Strip(OrEmpty(r.save_path)), IntOrZero(r.size),
      Lower(Strip(OrEmpty(r.sites))), Lower(Strip(OrEmpty(r.group)))>>

\* the order of str on the downloader ids and on the hashes of the model
StrRank(s) ==
    CASE s = "X"  -> 1
      [] s = "Y"  -> 2
      [] s = "Z"  -> 3
      [] s = "hA" -> 1
      [] s = "hB" -> 2

\* sort_key compared without its second and third component
SortKeyLess_LastSeenOnly(a, b) == a.last_seen < b.last_seen

\* sort_key(a) < sort_key(b), lines 758-763: last_seen values of one format
\* compare as strings the way their times compare
SortKeyLess(a, b) ==
    \/ a.last_seen < b.last_seen
    \/ /\ a.last_seen = b.last_seen
       /\ \/ StrRank(a.downloader_id) < StrRank(b.downloader_id)
          \/ /\ a.downloader_id = b.downloader_id
             /\ StrRank(a.hash) < StrRank(b.hash)

\* max(candidates, key=sort_key): the first of the greatest elements
RECURSIVE PyMax(_, _, _)
PyMax(candidates, i, best) ==
    IF i > Len(candidates) THEN best
    ELSE PyMax(candidates, i + 1,
               IF SortKeyLess(best, candidates[i]) THEN candidates[i] ELSE best)

_choose_keep_downloader_id_for_dedup(records, active) ==
    LET IsActive(r) == r.hash \in active
        active_records == SelectSeq(records, IsActive)
        candidates == IF active_records # <<>> THEN active_records ELSE records
        keep == PyMax(candidates, 2, candidates[1])
    IN  keep.downloader_id

\* to_delete of lines 691-715, for the rows read in the order rows
\* DedupToDelete that spares every row whose hash is active
DedupToDelete_ActiveKept(rows, active) ==
    LET InGroup(key) == LET Same(r) == attr_key(r) = key IN SelectSeq(rows, Same)
        Doomed(r) ==
            LET records == InGroup(attr_key(r))
                downloader_ids == {records[i].downloader_id : i \in 1..Len(records)}
            IN  /\ Len(records) >= 2
                /\ Cardinality(downloader_ids) >= 2
                /\ r.hash \notin active
                /\ r.downloader_id # _choose_keep_downloader_id_for_dedup(records, active)
    IN  {<<rows[i].hash, rows[i].downloader_id>> : i \in {j \in 1..Len(rows) : Doomed(rows[j])}}

DedupToDelete(rows, active) ==
    LET InGroup(key) == LET Same(r) == attr_key(r) = key IN SelectSeq(rows, Same)
        Doomed(r) ==
            LET records == InGroup(attr_key(r))
                downloader_ids == {records[i].downloader_id : i \in 1..Len(records)}
            IN  /\ Len(records) >= 2
                /\ Cardinality(downloader_ids) >= 2
                /\ r.downloader_id # _choose_keep_downloader_id_for_dedup(records, active)
    IN  {<<rows[i].hash, rows[i].downloader_id>> : i \in {j \in 1..Len(rows) : Doomed(rows[j])}}

\* DedupSteps without the DELETE on torrent_upload_stats
DedupSteps_StatsKept(T, S, to_delete) ==
    <<[t |-> T, s |-> S],
      [t |-> Without(T, to_delete), s |-> S],
      [t |-> Without(T, to_delete), s |-> S]>>

\* the two executemany of lines 717-723, as states of the transaction
DedupSteps(T, S, to_delete) ==
    <<[t |-> T, s |-> S],
      [t |-> Without(T, to_delete), s |-> S],
      [t |-> Without(T, to_delete), s |-> Without(S, to_delete)]>>

\* _deduplicate_based_on_active with the rows read in the order order;
\* failed_after = -1 when no statement fails, else the number of delete
\* statements that completed before the exception
_deduplicate_based_on_active(T, S, active, order, failed_after) ==
    LET rows == [i \in 1..Len(order) |-> RowDict(T, order[i])]
        to_delete == DedupToDelete(rows, active)
        steps == DedupSteps(T, S, to_delete)
        locals == [active_hashes |-> active, before |-> T, stats_before |-> S,
                   to_delete |-> to_delete]
    IN  IF failed_after # -1
        THEN [store |-> Rollback(steps[1], steps[failed_after + 1]),
              locals |-> [outcome |-> "rolled_back"] @@ locals]
        ELSE IF to_delete = {}
        THEN [store |-> steps[1], locals |-> [outcome |-> "nothing"] @@ locals]
        ELSE [store |-> steps[3], locals |-> [outcome |-> "committed"] @@ locals]

\* one call in a behaviour
Deduplicate(failed_after) ==
    /\ dedup.outcome = "none"
    /\ \E active \in SUBSET Hashes :
         \E order \in ReadOrders(torrents) :
            LET res == _deduplicate_based_on_active(torrents, torrent_upload_stats,
                           active, order, failed_after)
            IN  /\ failed_after > 0 => res.locals.to_delete # {}
                /\ torrents' = res.store.t
                /\ torrent_upload_stats' = res.store.s
                /\ dedup' = res.locals
    /\ UNCHANGED <<config, db_type, client_torrents, now, pc, loop_i, all_db_attribute_index,
                   all_active_hashes, totals, call, pass_error, clients_unchanged,
                   traffic_vars, run_vars, main_vars, lifecycle_vars, connector_vars, lock_vars>>

\* the pass ends at the commit of line 725
DedupCommits == Deduplicate(-1) /\ dedup'.outcome = "committed"

\* no group has rows of two downloaders: nothing is written
DedupFindsNothing == Deduplicate(-1) /\ dedup'.outcome = "nothing"

\* a statement raises: except Exception of line 734 rolls back
DedupRollsBack == \E failed_after \in 0..1 : Deduplicate(failed_after)

\* rows of the store before a deduplication
DedupRows ==
    LET row == [name |-> "Foo", save_path |-> "/d", size |-> 100, progress |-> 1000,
                state |-> "seeding", sites |-> "S", details |-> "", group |-> "G",
                last_seen |-> 1, seeders |-> 1, iyuu_last_check |-> None]
    IN  {row,
         [row EXCEPT !.last_seen = 2],
         [row EXCEPT !.sites = " S"],
         [row EXCEPT !.sites = " S", !.last_seen = 2],
         [row EXCEPT !.name = "Bar"]}

DedupKeys == Hashes \X {"X", "Y"}

InitDeduplicator ==
    /\ InitConfig
    /\ db_type = "sqlite"
    /\ \E keys \in SUBSET DedupKeys :
          /\ torrents \in [keys -> DedupRows]
          /\ torrent_upload_stats = [k \in keys |-> 3]
    /\ client_torrents = [d \in DownloaderIds |-> EmptyTable]
    /\ now = 2
    /\ pc = "idle"
    /\ loop_i = 0
    /\ all_db_attribute_index = {}
    /\ all_active_hashes = {}
    /\ totals = NoTotals
    /\ call = NoCall
    /\ pass_error = FALSE
    /\ clients_unchanged = FALSE
    /\ InitTraffic
    /\ InitRun
    /\ InitMain
    /\ InitLifecycle
    /\ InitDedup
    /\ InitConnectors
    /\ InitLock

NextDeduplicator ==
    \/ DedupCommits
    \/ DedupFindsNothing
    \/ DedupRollsBack

SpecDeduplicator == InitDeduplicator /\ [][NextDeduplicator]_vars

---------------------------------------------------------------------------
(* The critical sections on traffic_buffer, statement by statement: lines     *)
(* 501-505 in the thread of run, lines 2296-2299 in the thread that calls     *)
(* stop                                                                       *)

\* Lock.acquire of a lock that excludes nobody
MayAcquire_Always == TRUE

\* Lock.acquire returns when no thread holds the lock
MayAcquire == traffic_buffer_lock = "free"

\* what _flush_traffic_buffer_to_db does to the store, and its record
FlushOnly(buffer, fails) ==
    /\ traffic_stats' = _flush_traffic_buffer_to_db(traffic_stats, buffer, fails)
    /\ last_flush' =
          IF FilteredSamples(buffer) = <<>>
          THEN [outcome |-> "skipped", rejected |-> {}, batch |-> buffer]
          ELSE IF fails
               THEN [outcome |-> "rolled_back", rejected |-> {}, batch |-> buffer]
               ELSE [outcome |-> "committed",
                     rejected |-> RejectedSamples(traffic_stats, buffer),
                     batch |-> buffer]

\* with self.traffic_buffer_lock, line 501
RunLocks ==
    /\ run_pc = "buffer"
    /\ MayAcquire
    /\ traffic_buffer_lock' = "run"
    /\ run_pc' = "append"
    /\ UNCHANGED <<config, db_type, torrent_vars, now, traffic_vars, _startup_agg_rebuild_done,
                   active_hashes, rebuild, tick, shutdown_event, stop_pc, aggregation_counter,
                   main_vars, lifecycle_vars, dedup, connector_vars, handed>>

\* lines 502-503: the append and the test of the batch size
RunAppends ==
    /\ run_pc = "append"
    /\ traffic_buffer' = Append(traffic_buffer, tick)
    /\ handed' = [handed EXCEPT !.ids = Append(handed.ids, handed.appended + 1),
                                !.appended = handed.appended + 1]
    /\ tick' = NoTick
    /\ run_pc' = IF Len(traffic_buffer) + 1 >= TRAFFIC_BATCH_WRITE_SIZE
                 THEN "flush" ELSE "unlock"
    /\ UNCHANGED <<config, db_type, torrent_vars, now, traffic_stats, last_flush, _is_running,
                   _startup_agg_rebuild_done, active_hashes, rebuild, shutdown_event,
                   stop_pc, aggregation_counter, main_vars, lifecycle_vars, dedup,
                   connector_vars, traffic_buffer_lock>>

\* line 504: the flush returns, committed or rolled back
RunFlush(fails) ==
    /\ run_pc = "flush"
    /\ fails => FilteredSamples(traffic_buffer) # <<>>
    /\ FlushOnly(traffic_buffer, fails)
    /\ handed' = [handed EXCEPT !.log = Append(handed.log, handed.ids)]
    /\ run_pc' = "clear"
    /\ UNCHANGED <<config, db_type, torrent_vars, now, traffic_buffer, _is_running,
                   _startup_agg_rebuild_done, active_hashes, rebuild, tick, shutdown_event,
                   stop_pc, aggregation_counter, main_vars, lifecycle_vars, dedup,
                   connector_vars, traffic_buffer_lock>>

RunFlushes == RunFlush(FALSE)

RunFlushRollsBack == RunFlush(TRUE)

\* line 504: the flush raises from its finally clause; the with statement
\* releases the lock and the error is caught at line 347
RunFlushRaises ==
    /\ run_pc = "flush"
    /\ FilteredSamples(traffic_buffer) # <<>>
    /\ last_flush' = [outcome |-> "raised", rejected |-> {}, batch |-> traffic_buffer]
    /\ traffic_buffer_lock' = "free"
    /\ run_pc' = AfterTickError
    /\ UNCHANGED <<config, db_type, torrent_vars, now, traffic_stats, traffic_buffer, _is_running,
                   _startup_agg_rebuild_done, active_hashes, rebuild, tick, shutdown_event,
                   stop_pc, aggregation_counter, main_vars, lifecycle_vars, dedup,
                   connector_vars, handed>>

\* line 505
RunClears ==
    /\ run_pc = "clear"
    /\ traffic_buffer' = <<>>
    /\ handed' = [handed EXCEPT !.ids = <<>>]
    /\ run_pc' = "unlock"
    /\ UNCHANGED <<config, db_type, torrent_vars, now, traffic_stats, last_flush, _is_running,
                   _startup_agg_rebuild_done, active_hashes, rebuild, tick, shutdown_event,
                   stop_pc, aggregation_counter, main_vars, lifecycle_vars, dedup,
                   connector_vars, traffic_buffer_lock>>

\* the end of the with statement of line 501
RunUnlocks ==
    /\ run_pc = "unlock"
    /\ traffic_buffer_lock' = "free"
    /\ run_pc' = "aggregate"
    /\ UNCHANGED <<config, db_type, torrent_vars, now, traffic_vars, _startup_agg_rebuild_done,
                   active_hashes, rebuild, tick, shutdown_event, stop_pc, aggregation_counter,
                   main_vars, lifecycle_vars, dedup, connector_vars, handed>>

\* with self.traffic_buffer_lock and the test of the buffer, lines 2296-2297
StopLocks ==
    /\ stop_pc = "signalled"
    /\ MayAcquire
    /\ traffic_buffer_lock' = "stop"
    /\ stop_pc' = IF traffic_buffer # <<>> THEN "flush" ELSE "unlock"
    /\ UNCHANGED <<config, db_type, torrent_vars, now, traffic_vars, run_pc,
                   _startup_agg_rebuild_done, active_hashes, rebuild, tick, shutdown_event,
                   aggregation_counter, main_vars, lifecycle_vars, dedup, connector_vars,
                   handed>>

\* line 2298: the flush returns, committed or rolled back
StopLockedFlush(fails) ==
    /\ stop_pc = "flush"
    /\ fails => FilteredSamples(traffic_buffer) # <<>>
    /\ FlushOnly(traffic_buffer, fails)
    /\ handed' = [handed EXCEPT !.log = Append(handed.log, handed.ids)]
    /\ stop_pc' = "clear"
    /\ UNCHANGED <<config, db_type, torrent_vars, now, traffic_buffer, _is_running, run_pc,
                   _startup_agg_rebuild_done, active_hashes, rebuild, tick, shutdown_event,
                   aggregation_counter, main_vars, lifecycle_vars, dedup, connector_vars,
                   traffic_buffer_lock>>

StopLockedFlushes == StopLockedFlush(FALSE)

StopLockedFlushRollsBack == StopLockedFlush(TRUE)

\* line 2298: the flush raises; stop() ends with the error and the lock is
\* released
StopLockedFlushRaises ==
    /\ stop_pc = "flush"
    /\ FilteredSamples(traffic_buffer) # <<>>
    /\ last_flush' = [outcome |-> "raised", rejected |-> {}, batch |-> traffic_buffer]
    /\ traffic_buffer_lock' = "free"
    /\ stop_pc' = "returned"
    /\ UNCHANGED <<config, db_type, torrent_vars, now, traffic_stats, traffic_buffer, _is_running,
                   run_pc, _startup_agg_rebuild_done, active_hashes, rebuild, tick,
                   shutdown_event, aggregation_counter, main_vars, lifecycle_vars, dedup,
                   connector_vars, handed>>

\* line 2299
StopLockedClears ==
    /\ stop_pc = "clear"
    /\ traffic_buffer' = <<>>
    /\ handed' = [handed EXCEPT !.ids = <<>>]
    /\ stop_pc' = "unlock"
    /\ UNCHANGED <<config, db_type, torrent_vars, now, traffic_stats, last_flush, _is_running,
                   run_pc, _startup_agg_rebuild_done, active_hashes, rebuild, tick,
                   shutdown_event, aggregation_counter, main_vars, lifecycle_vars, dedup,
                   connector_vars, traffic_buffer_lock>>

\* the end of the with statement of line 2296
StopUnlocks ==
    /\ stop_pc = "unlock"
    /\ traffic_buffer_lock' = "free"
    /\ stop_pc' = "returned"
    /\ UNCHANGED <<config, db_type, torrent_vars, now, traffic_vars, run_pc,
                   _startup_agg_rebuild_done, active_hashes, rebuild, tick, shutdown_event,
                   aggregation_counter, main_vars, lifecycle_vars, dedup, connector_vars,
                   handed>>

InitSections ==
    /\ InitConfig
    /\ db_type = "sqlite"
    /\ torrents = EmptyTable
    /\ torrent_upload_stats = EmptyTable
    /\ client_torrents = [d \in DownloaderIds |-> EmptyTable]
    /\ now = 2
    /\ pc = "idle"
    /\ loop_i = 0
    /\ all_db_attribute_index = {}
    /\ all_active_hashes = {}
    /\ totals = NoTotals
    /\ call = NoCall
    /\ pass_error = FALSE
    /\ clients_unchanged = FALSE
    /\ InitTraffic
    /\ run_pc = "loop"
    /\ _startup_agg_rebuild_done = TRUE
    /\ active_hashes = {}
    /\ rebuild = NoRebuild
    /\ tick = NoTick
    /\ shutdown_event = FALSE
    /\ stop_pc = "none"
    /\ aggregation_counter = 0
    /\ InitMain
    /\ InitLifecycle
    /\ InitDedup
    /\ InitConnectors
    /\ InitLock

NextSections ==
    \/ TickFetch
    \/ TickRaises
    \/ LoopExits
    \/ RunLocks
    \/ RunAppends
    \/ RunFlushes
    \/ RunFlushRollsBack
    \/ RunFlushRaises
    \/ RunClears
    \/ RunUnlocks
    \/ TickAggregate
    \/ WaitBreaks
    \/ WaitElapses
    \/ StopSignals
    \/ StopLocks
    \/ StopLockedFlushes
    \/ StopLockedFlushRollsBack
    \/ StopLockedFlushRaises
    \/ StopLockedClears
    \/ StopUnlocks

SpecSections == InitSections /\ [][NextSections]_vars

Init ==
    /\ InitConfig
    /\ db_type = "sqlite"
    /\ torrents = EmptyTable
    /\ torrent_upload_stats = EmptyTable
    /\ client_torrents = [d \in DownloaderIds |-> EmptyTable]
    /\ now = 2
    /\ pc = "idle"
    /\ loop_i = 0
    /\ all_db_attribute_index = {}
    /\ all_active_hashes = {}
    /\ totals = NoTotals
    /\ call = NoCall
    /\ pass_error = FALSE
    /\ clients_unchanged = FALSE
    /\ InitTraffic
    /\ InitRest

Next ==
    \/ ClientsChange
    \/ BeginUpdate
    \/ FetchFails
    \/ ReconcileCommits
    \/ ReconcileRollsBack
    \/ CleanupDeletedDownloaders
    \/ ReturnFromUpdate

Spec == Init /\ [][Next]_vars

\* the steps of update_torrents_in_db, which the loop of run() calls on every
\* tick
PassSteps ==
    \/ BeginUpdate
    \/ FetchFails
    \/ ReconcileCommits
    \/ ReconcileRollsBack
    \/ CleanupDeletedDownloaders
    \/ ReturnFromUpdate

\* the thread of run() is scheduled: a pass that has begun goes on to its end
\* and the next tick begins another
SpecPassFair == Spec /\ WF_vars(PassSteps)

NextTraffic ==
    \/ FetchAndBuffer
    \/ FetchAndBufferFlushFails
    \/ Stop

SpecTraffic == Init /\ [][NextTraffic]_vars

\* the rows the store may hold for one torrent before an upsert
PersistedRows ==
    {[name |-> "Foo", save_path |-> "/d", size |-> 100, progress |-> 500,
      state |-> "seeding", sites |-> sites, details |-> details, group |-> group,
      last_seen |-> 0, seeders |-> 1, iyuu_last_check |-> None] :
        sites \in {None, "", "S"}, details \in {None, "", "D"}, group \in {None, "G"}}

\* the torrents a client reports in the upsert runs
UpsertInfos ==
    {[TorrentInfo(name, "/e", state, sites, 10000, 2, 5) EXCEPT
          !.details = details, !.group = group] :
        name \in {"Bar"}, state \in {"pausedUP"},
        sites \in {None, "", "S2"}, details \in {None, "", "D2"}, group \in {None, "", "G2"}}

\* the second half of _upsert_torrents_batch, for a batch of one torrent the
\* store has a row for: the parameter row and the executemany of the dialect's
\* INSERT
UpsertTorrent ==
    /\ pc = "idle"
    /\ \E h \in {k[1] : k \in DOMAIN torrents} : \E info \in UpsertInfos :
          LET downloader_id == enabled_downloaders[1].id
              current_torrents == [x \in {h} |-> info]
          IN  /\ torrents' = UpsertRows(torrents, {h}, current_torrents, downloader_id,
                                        strftime(now), db_type)
              /\ call' = [NoCall EXCEPT
                            !.downloader_id = downloader_id,
                            !.outcome = "upserted",
                            !.current_torrents = current_torrents,
                            !.db_torrents =
                                _get_downloader_torrents_from_db(torrents, downloader_id)]
    /\ UNCHANGED <<config, db_type, torrent_upload_stats, client_torrents, now, pc, loop_i,
                   all_db_attribute_index, all_active_hashes, totals, pass_error,
                   clients_unchanged, traffic_vars, run_vars, main_vars, lifecycle_vars, dedup, connector_vars, lock_vars>>

InitUpsert ==
    /\ InitConfig
    /\ db_type \in DbTypes
    /\ \E row \in PersistedRows :
          torrents = [k \in {<<"hA", enabled_downloaders[1].id>>} |-> row]
    /\ torrent_upload_stats = EmptyTable
    /\ client_torrents = [d \in DownloaderIds |-> EmptyTable]
    /\ now = 2
    /\ pc = "idle"
    /\ loop_i = 0
    /\ all_db_attribute_index = {}
    /\ all_active_hashes = {}
    /\ totals = NoTotals
    /\ call = NoCall
    /\ pass_error = FALSE
    /\ clients_unchanged = FALSE
    /\ InitTraffic
    /\ InitRest

NextUpsert == UpsertTorrent

SpecUpsert == InitUpsert /\ [][NextUpsert]_vars

---------------------------------------------------------------------------
(* One reconciliation of a client that holds a torrent the store has a row for *)

\* the row of the store before the pass
CriterionRows ==
    {[name |-> "Foo", save_path |-> "/d", size |-> 100, progress |-> progress,
      state |-> "seeding", sites |-> "S", details |-> "", group |-> None,
      last_seen |-> 0, seeders |-> 1, iyuu_last_check |-> None] :
        progress \in {500, 999}}

\* what the client reports for the torrent
CriterionInfos ==
    {[TorrentInfo("Foo", save_path, state, sites, progress, seeders, uploaded) EXCEPT
          !.size = size, !.details = details, !.group = group] :
        save_path \in {"/d", "/e"}, state \in {"uploading", "stalledUP"},
        sites \in {"S", "S2"}, progress \in {5000, 5004, 5010, 5020, 9990, 10000},
        seeders \in {1, 2}, uploaded \in {5, 6}, size \in {100, 200},
        details \in {"", "D"}, group \in {None, "G"}}

InitCriterion ==
    /\ InitConfig
    /\ db_type = "sqlite"
    /\ \E row \in CriterionRows :
          torrents = [k \in {<<"hA", "X">>} |-> row]
    /\ torrent_upload_stats = [k \in {<<"hA", "X">>} |-> 3]
    /\ \E info \in CriterionInfos :
          client_torrents =
             [d \in DownloaderIds |-> IF d = "X" THEN [h \in {"hA"} |-> info] ELSE EmptyTable]
    /\ now = 2
    /\ pc = "idle"
    /\ loop_i = 0
    /\ all_db_attribute_index = {}
    /\ all_active_hashes = {}
    /\ totals = NoTotals
    /\ call = NoCall
    /\ pass_error = FALSE
    /\ clients_unchanged = FALSE
    /\ InitTraffic
    /\ InitRest

NextCriterion ==
    \/ BeginUpdate
    \/ FetchFails
    \/ ReconcileCommits
    \/ ReconcileRollsBack
    \/ CleanupDeletedDownloaders
    \/ ReturnFromUpdate

SpecCriterion == InitCriterion /\ [][NextCriterion]_vars

---------------------------------------------------------------------------
(* One reconciliation of a client that reports a new hash for a torrent the   *)
(* store has a row for                                                        *)

\* the row of the store before the pass; the startup rebuild writes '' for a
\* group that was NULL
IdentityRows ==
    {[name |-> name, save_path |-> "/d", size |-> 100, progress |-> 1000,
      state |-> "seeding", sites |-> sites, details |-> "", group |-> group,
      last_seen |-> 0, seeders |-> 1, iyuu_last_check |-> None] :
        name \in {"Foo", "Foo ", "Bar"}, sites \in {"S", "s"}, group \in {None, ""}}

\* what the client reports under the new hash
IdentityInfos ==
    {TorrentInfo(name, save_path, "uploading", "S", 10000, 1, 5) :
        name \in {"Foo", " Foo"}, save_path \in {"/d", " /d"}}

InitIdentity ==
    /\ InitConfig
    /\ db_type = "sqlite"
    /\ \E row \in IdentityRows :
          torrents = [k \in {<<"hA", "X">>} |-> row]
    /\ torrent_upload_stats = [k \in {<<"hA", "X">>} |-> 3]
    /\ \E info \in IdentityInfos :
          client_torrents =
             [d \in DownloaderIds |-> IF d = "X" THEN [h \in {"hB"} |-> info] ELSE EmptyTable]
    /\ now = 2
    /\ pc = "idle"
    /\ loop_i = 0
    /\ all_db_attribute_index = {}
    /\ all_active_hashes = {}
    /\ totals = NoTotals
    /\ call = NoCall
    /\ pass_error = FALSE
    /\ clients_unchanged = FALSE
    /\ InitTraffic
    /\ InitRest

SpecIdentity == InitIdentity /\ [][NextCriterion]_vars

---------------------------------------------------------------------------
(* Properties of one reconciliation, read off the locals of the last call *)

\* the last _update_downloader_torrents_incremental call committed its transaction
Committed == call.outcome = "committed"

CallKey(h) == <<h, call.downloader_id>>

\* db_hashes - current_hashes of the last call
AbsentHashes == DOMAIN call.db_torrents \ DOMAIN call.current_torrents

\* current_hashes - db_hashes of the last call
FreshHashes == DOMAIN call.current_torrents \ DOMAIN call.db_torrents

\* the old hashes the last call matched by raw attribute key
ReplacedOldHashes ==
    {call.old_hash_for_replacement[h] : h \in call.updated_torrents} \ {None}

\* the hashes of the client's rows in the store that carry the raw key of info
RowsOfClientWithKey(T, downloader_id, info) ==
    {k[1] : k \in {k2 \in DOMAIN T :
                      /\ k2[2] = downloader_id
                      /\ _generate_attribute_key(T[k2]) = _generate_attribute_key(info)}}

\* hashB of the snapshot takes the place of hashA of the store
ReplacementDone(hashA, hashB) ==
    /\ CallKey(hashA) \notin DOMAIN torrents
    /\ CallKey(hashA) \notin DOMAIN torrent_upload_stats
    /\ RowsOfClientWithKey(torrents, call.downloader_id, call.current_torrents[hashB])
          = {hashB}

C1_Case(hashA, hashB) ==
    /\ hashA \in AbsentHashes
    /\ hashB \in FreshHashes
    /\ {h \in DOMAIN call.db_torrents :
            _generate_attribute_key(call.db_torrents[h])
                = _generate_attribute_key(call.current_torrents[hashB])} = {hashA}
    /\ {h \in DOMAIN call.current_torrents :
            /\ call.current_torrents[h].name = call.current_torrents[hashB].name
            /\ call.current_torrents[h].save_path = call.current_torrents[hashB].save_path
            /\ call.current_torrents[h].size = call.current_torrents[hashB].size} = {hashB}

RowsWithNormKey(T, info) == {k \in DOMAIN T : NormKeyOf(T[k]) = NormKeyOf(info)}

C3_OtherRows(H1) ==
    {<<e.hash, e.downloader_id>> :
        e \in {e2 \in all_db_attribute_index :
                  /\ e2.key = NormKeyOf(call.current_torrents[H1])
                  /\ e2.downloader_id # call.downloader_id}}

DeletionCandidates == AbsentHashes \ ReplacedOldHashes

CommitStep == pc = "loop" /\ loop_i' = loop_i + 1 /\ call'.outcome = "committed"

\* the rows of the store, other than k, that have the name of row k and a
\* state of the set States
SameNamedRows(T, k, States) ==
    {k2 \in DOMAIN T \ {k} : T[k2].name = T[k].name /\ T[k2].state \in States}

AllStates == {format_state(s) : s \in {"uploading", "stalledUP", "pausedUP", "stoppedUP",
                                       "error", "queuedUP", "checkingUP", "downloading"}}

\* the deletion candidates of the call a step makes that are in state not-seeding
NotSeedingCandidates ==
    {<<h, call'.downloader_id>> :
        h \in {h2 \in (DOMAIN call'.db_torrents \ DOMAIN call'.current_torrents)
                        \ ({call'.old_hash_for_replacement[u] : u \in call'.updated_torrents}
                              \ {None}) :
                  call'.db_torrents[h2].state = "not_seeding"}}

RollbackStep == pc = "loop" /\ loop_i' = loop_i + 1 /\ call'.outcome = "rolled_back"

FetchFailStep == pc = "loop" /\ loop_i' = loop_i + 1 /\ call'.outcome = "fetch_failed"

\* C10: a step in which one client's torrent list cannot be fetched changes
\* neither table, and the loop goes on to the next enabled client: the pass
\* reaches its end only after the last enabled client.
C10_FetchFailureIsLocal ==
    [][/\ FetchFailStep =>
             /\ torrents' = torrents
             /\ torrent_upload_stats' = torrent_upload_stats
             /\ loop_i < Len(enabled_downloaders) => pc' = "loop"
       /\ (pc = "loop" /\ pc' = "cleanup") => loop_i = Len(enabled_downloaders)]_vars

\* the first client failed to fetch and kept its rows; the next client was
\* reconciled and committed in the same pass
C10_Witness ==
    /\ pc = "cleanup"
    /\ pass_error
    /\ Committed
    /\ call.downloader_id = enabled_downloaders[Len(enabled_downloaders)].id
    /\ totals.new + totals.updated + totals.deleted
          = Cardinality(call.new_torrents) + Cardinality(call.updated_torrents)
              + Cardinality(call.hashes_to_delete)
    /\ \E k \in DOMAIN torrents :
          /\ k[2] = enabled_downloaders[1].id
          /\ k[1] \notin DOMAIN client_torrents[k[2]]
          /\ torrents[k].state = "seeding"

\* the call c executed a writing statement and committed it: the DELETE of the
\* delete batch, the replacement DELETEs and the INSERT of the upsert batch,
\* or the INSERT of the upload statistics
CallWrote(c) ==
    /\ c.outcome = "committed"
    /\ \/ c.hashes_to_delete # {}
       \/ c.new_torrents \cup c.updated_torrents # {}
       \/ _collect_upload_stats(c.current_torrents) # {}

\* C2 as the specification states it: in a pass that follows an error-free
\* pass with no change of any client's snapshot in between, no client's
\* reconciliation writes to torrents or torrent_upload_stats, as long as the
\* pass has met no error.
C2_AsStated ==
    [][(pc = "loop" /\ loop_i' = loop_i + 1 /\ clients_unchanged /\ ~pass_error')
          => ~CallWrote(call')]_vars

\* the cumulative counters of the rows of each client do not decrease as the
\* timestamp grows
Monotone(TS) ==
    \A k1 \in DOMAIN TS : \A k2 \in DOMAIN TS :
        (k1[2] = k2[2] /\ k1[1] <= k2[1])
        => /\ TS[k1].cumulative_uploaded <= TS[k2].cumulative_uploaded
           /\ TS[k1].cumulative_downloaded <= TS[k2].cumulative_downloaded

\* the rows a step writes: new keys and keys whose row changes
WrittenTrafficKeys ==
    {k \in DOMAIN traffic_stats' :
        IF k \in DOMAIN traffic_stats THEN traffic_stats'[k] # traffic_stats[k] ELSE TRUE}

\* C4: with a clock that does not go back and counters that are not negative,
\* after every step the cumulative counters persisted for a client do not
\* decrease in timestamp order; no step removes a row, and every row a step
\* writes carries counters at least as large as every row the client had
\* before the step, so a sample below the persisted maximum is never written.
C4_Monotonicity ==
    [][/\ Monotone(traffic_stats')
       /\ DOMAIN traffic_stats \subseteq DOMAIN traffic_stats'
       /\ \A k \in WrittenTrafficKeys : \A k0 \in DOMAIN traffic_stats :
             k0[2] = k[2]
             => /\ traffic_stats'[k].cumulative_uploaded
                      >= traffic_stats[k0].cumulative_uploaded
                /\ traffic_stats'[k].cumulative_downloaded
                      >= traffic_stats[k0].cumulative_downloaded]_vars

\* a committed flush rejected a sample whose upload counter is positive and
\* below the one of a row the client has, at a later timestamp than that row
C4_Witness ==
    /\ last_flush.outcome = "committed"
    /\ \E x \in last_flush.rejected : \E k \in DOMAIN traffic_stats :
          /\ k[2] = x.point.downloader_id
          /\ k[1] < x.timestamp
          /\ x.point.total_ul > 0
          /\ x.point.total_ul < traffic_stats[k].cumulative_uploaded
          /\ <<x.timestamp, x.point.downloader_id>> \notin DOMAIN traffic_stats

\* a field of an upsert parameter row counts as empty
IsEmptyValue(v) == v = None \/ v = ""

\* C8: after an upsert of a row that exists, in each of the three dialects,
\* sites, group and details hold the new value when it is not empty and the
\* value persisted before when the new one is empty (NULL or ''), and name,
\* save_path, size, progress, state, last_seen and seeders hold the values of
\* the upsert.
C8_MergeOnEmpty ==
    call.outcome = "upserted" =>
        \A h \in DOMAIN call.current_torrents \cap DOMAIN call.db_torrents :
            LET old == call.db_torrents[h]
                new == call.current_torrents[h]
                row == torrents[CallKey(h)]
            IN  /\ row.sites = IF IsEmptyValue(new.sites) THEN old.sites ELSE new.sites
                /\ row.group = IF IsEmptyValue(new.group) THEN old.group ELSE new.group
                /\ row.details = IF IsEmptyValue(new.details) THEN old.details
                                 ELSE new.details
                /\ row.name = new.name
                /\ row.save_path = new.save_path
                /\ row.size = new.size
                /\ row.progress = RoundProgress(new.progress)
                /\ row.state = format_state(new.state)
                /\ row.last_seen = strftime(now)
                /\ row.seeders = new.seeders

\* under mysql, an upsert with sites '' and group NULL on a row that holds a
\* site, a group and a details URL keeps the three and takes the new name
C8_Witness ==
    /\ call.outcome = "upserted"
    /\ db_type = "mysql"
    /\ \E h \in DOMAIN call.current_torrents \cap DOMAIN call.db_torrents :
          /\ call.current_torrents[h].sites = ""
          /\ call.current_torrents[h].group = None
          /\ call.current_torrents[h].details = ""
          /\ call.db_torrents[h].sites = "S"
          /\ call.db_torrents[h].group = "G"
          /\ call.db_torrents[h].details = "D"
          /\ torrents[CallKey(h)].sites = "S"
          /\ torrents[CallKey(h)].group = "G"
          /\ torrents[CallKey(h)].details = "D"
          /\ torrents[CallKey(h)].name = "Bar"
          /\ call.db_torrents[h].name = "Foo"

---------------------------------------------------------------------------
(* Properties of the startup section of run *)

AtLoop == run_pc = "loop"

\* C11 as the specification states it: when the thread reaches its loop the
\* rebuild has been called at most once, a call followed a startup refresh in
\* which no client failed, and a startup refresh that completed without any
\* failure and found active hashes was followed by the call.
C11_AsStated ==
    AtLoop =>
        /\ rebuild.calls <= 1
        /\ rebuild.calls = 1 => ~pass_error
        /\ (_startup_agg_rebuild_done /\ ~pass_error /\ active_hashes # {})
              => rebuild.calls = 1

RebuildDone == AtLoop /\ rebuild.outcome \in {"committed", "nothing"}

\* inside the active hash set and the enabled client set of the rebuild
InsideBoth(k) == k[1] \in rebuild.active_hashes /\ k[2] \in EnabledIds

SameRowAndStats(k) ==
    /\ k \in DOMAIN torrents
    /\ torrents[k] = rebuild.before[k]
    /\ (k \in DOMAIN torrent_upload_stats) = (k \in DOMAIN rebuild.stats_before)
    /\ k \in DOMAIN torrent_upload_stats => torrent_upload_stats[k] = rebuild.stats_before[k]

GoneFromBoth(k) == k \notin DOMAIN torrents /\ k \notin DOMAIN torrent_upload_stats

\* the claim's condition on the group of the row k, with the five-part group key
MixedGroup5(k) ==
    LET group == {k2 \in DOMAIN rebuild.before :
                     NormKeyOf(rebuild.before[k2]) = NormKeyOf(rebuild.before[k])}
    IN  (\E k2 \in group : ~InsideBoth(k2)) /\ (\E k2 \in group : InsideBoth(k2))

\* C12 as the specification states it: after the rebuild, a group (five-part
\* key) that mixes rows outside and inside the active-hash and enabled-client
\* sets holds exactly its inside rows, values and upload statistics as before,
\* its other rows are gone from both tables, and every other group is unchanged.
C12_AsStated ==
    RebuildDone =>
        /\ DOMAIN torrents \subseteq DOMAIN rebuild.before
        /\ \A k \in DOMAIN rebuild.before :
              IF MixedGroup5(k) /\ ~InsideBoth(k) THEN GoneFromBoth(k) ELSE SameRowAndStats(k)

\* the condition the code uses, on the key (name, size): the group has a row
\* whose hash is active, whatever its client, and a row outside the two sets
StaleActiveGroup(k) ==
    LET group == {k2 \in DOMAIN rebuild.before :
                     /\ rebuild.before[k2].name = rebuild.before[k].name
                     /\ rebuild.before[k2].size = rebuild.before[k].size}
    IN  (\E k2 \in group : ~InsideBoth(k2))
           /\ (\E k2 \in group : k2[1] \in rebuild.active_hashes)

\* a kept row: the twelve columns written back, NULL text as '', the column
\* iyuu_last_check at its default, the upload statistics as before
KeptAsRewritten(k) ==
    /\ k \in DOMAIN torrents
    /\ \A f \in {"name", "save_path", "size", "progress", "state", "last_seen", "seeders"} :
          torrents[k][f] = rebuild.before[k][f]
    /\ \A f \in {"sites", "details", "group"} :
          torrents[k][f] = IF rebuild.before[k][f] = None THEN "" ELSE rebuild.before[k][f]
    /\ torrents[k].iyuu_last_check = None
    /\ (k \in DOMAIN torrent_upload_stats) = (k \in DOMAIN rebuild.stats_before)
    /\ k \in DOMAIN torrent_upload_stats => torrent_upload_stats[k] = rebuild.stats_before[k]

\* C12, amended: the rebuild groups rows by (name, size).  In a group with a
\* row whose hash is active and a row outside the active-hash or enabled-client
\* set, the rows inside both sets are written back (NULL site, details and
\* group as '', iyuu_last_check reset, upload statistics kept) and the other
\* rows are gone from both tables; rows of all other groups, and upload
\* statistics that have no torrents row, are unchanged.
C12_RebuildEffect ==
    RebuildDone =>
        /\ DOMAIN torrents \subseteq DOMAIN rebuild.before
        /\ \A k \in DOMAIN rebuild.before :
              IF StaleActiveGroup(k)
              THEN IF InsideBoth(k) THEN KeptAsRewritten(k) ELSE GoneFromBoth(k)
              ELSE SameRowAndStats(k)
        /\ \A k \in DOMAIN rebuild.stats_before \ DOMAIN rebuild.before :
              /\ k \in DOMAIN torrent_upload_stats
              /\ torrent_upload_stats[k] = rebuild.stats_before[k]

\* a rebuild that removed a row, wrote one back with its statistics, and left
\* the row of another group alone
C12_Witness ==
    /\ RebuildDone
    /\ rebuild.outcome = "committed"
    /\ \E k \in DOMAIN rebuild.before : StaleActiveGroup(k) /\ ~InsideBoth(k)
    /\ \E k \in DOMAIN rebuild.before :
          StaleActiveGroup(k) /\ InsideBoth(k) /\ k \in DOMAIN rebuild.stats_before
    /\ \E k \in DOMAIN rebuild.before : ~StaleActiveGroup(k)

\* C13: a failure in the startup section never keeps the thread from its loop:
\* a rebuild that fails leaves both tables as they were, and in every fair
\* execution the thread reaches the loop.
C13_StartupNeverBlocks ==
    /\ [][(run_pc = "rebuild" /\ rebuild'.outcome \in {"rolled_back", "raised"})
             => (torrents' = torrents /\ torrent_upload_stats' = torrent_upload_stats)]_vars
    /\ <>AtLoop

\* the loop reached after a refresh with a failure and a rebuild that rolled
\* back statements that had removed rows
C13_Witness ==
    /\ AtLoop
    /\ pass_error
    /\ rebuild.outcome = "rolled_back"
    /\ rebuild.delete_pairs # {}

---------------------------------------------------------------------------
(* Properties of the loop of run and of stop *)

StopCalled == stop_pc # "none"

\* C14: no step of a tick ends the loop, whatever failed in it (a client's
\* statistics call, _fetch_and_buffer_stats as a whole, the flush, the hourly
\* rollup): the thread leaves the loop only after stop() was called.
C14_LoopSurvivesErrors ==
    [][(run_pc # "exited" /\ run_pc' = "exited") => StopCalled]_vars

\* a tick in which a client gave no statistics, after a tick whose flush raised
\* or rolled back, with the thread still in its loop and stop() not called
C14_Witness ==
    /\ ~StopCalled
    /\ run_pc = "buffer"
    /\ last_flush.outcome \in {"raised", "rolled_back"}
    /\ Len(tick.points) < Len(enabled_downloaders)

\* C15 as the specification states it: once stop() has returned and the loop
\* has exited, the traffic buffer is empty.
C15_AsStated ==
    (stop_pc = "returned" /\ run_pc = "exited") => traffic_buffer = <<>>

\* C20 as the specification states it: after a flush of the loop that failed
\* and was rolled back, the entries of the failed batch are still buffered, to
\* be written by a later flush.
C20_AsStated ==
    (last_flush.outcome = "rolled_back" /\ ~StopCalled) =>
        \A k \in 1..Len(last_flush.batch) :
            \E j \in 1..Len(traffic_buffer) : traffic_buffer[j] = last_flush.batch[k]

---------------------------------------------------------------------------
(* Properties of the threads *)

TrackerInUpdate == run_pc = "refresh" /\ pc \in {"loop", "cleanup", "done"}

\* C16 as the specification states it: the refresh the DataTracker thread runs
\* at startup and the refresh run_startup_refresh_task runs in the main thread
\* are never in progress at the same time.
C16_AsStated == ~(TrackerInUpdate /\ main_pc = "refreshing")

\* C17 as the specification states it: at most one DataTracker thread is alive
\* at any time, under every interleaving of start_data_tracker and
\* stop_data_tracker.
C17_AsStated == Cardinality(AliveThreads) <= 1

---------------------------------------------------------------------------
(* Properties of the deduplicator *)

DedupCompleted == dedup.outcome \in {"committed", "nothing"}

\* the rows of a group before the call
DedupMembers(key) ==
    {k \in DOMAIN dedup.before : attr_key(RowDict(dedup.before, k)) = key}

DedupGroupKeys == {attr_key(RowDict(dedup.before, k)) : k \in DOMAIN dedup.before}

MultiClient(key) == Cardinality({k[2] : k \in DedupMembers(key)}) >= 2

GoneFromBothTables(k) == k \notin DOMAIN torrents /\ k \notin DOMAIN torrent_upload_stats

LeftAsBefore(k) ==
    /\ k \in DOMAIN torrents
    /\ torrents[k] = dedup.before[k]
    /\ k \in DOMAIN torrent_upload_stats
    /\ torrent_upload_stats[k] = dedup.stats_before[k]

\* C18 as the specification states it: after a call that completes without
\* error, every group with rows of more than one client has exactly one row
\* left, and every other row of the group is gone from both tables.
C18_AsStated ==
    DedupCompleted =>
        \A key \in DedupGroupKeys :
            MultiClient(key) =>
                \E kept \in DedupMembers(key) :
                    /\ kept \in DOMAIN torrents
                    /\ \A k \in DedupMembers(key) \ {kept} : GoneFromBothTables(k)

\* C18, amended: after a call that completes without error, every group with
\* rows of more than one client has the rows of exactly one client left, all of
\* them, each with its statistics as before, and every row of the group of
\* another client is gone from both tables; the rows of every other group are
\* left as they were.
C18_DedupResult ==
    DedupCompleted =>
        \A key \in DedupGroupKeys :
            IF MultiClient(key)
            THEN \E d \in {k[2] : k \in DedupMembers(key)} :
                    \A k \in DedupMembers(key) :
                        IF k[2] = d THEN LeftAsBefore(k) ELSE GoneFromBothTables(k)
            ELSE \A k \in DedupMembers(key) : LeftAsBefore(k)

\* a committed call on a group of two clients whose kept client has two rows
C18_Witness ==
    /\ dedup.outcome = "committed"
    /\ \E key \in DedupGroupKeys :
          /\ MultiClient(key)
          /\ Cardinality(DedupMembers(key) \cap DOMAIN torrents) = 2
          /\ DedupMembers(key) \ DOMAIN torrents # {}

\* the rows of a group among which the choice is made: the active ones when
\* there is one
Qualifying(key) ==
    LET act == {k \in DedupMembers(key) : k[1] \in dedup.active_hashes}
    IN  IF act # {} THEN act ELSE DedupMembers(key)

\* a comes before b by last_seen, then client id, then hash
ComesBefore(a, b) ==
    LET la == dedup.before[a].last_seen
        lb == dedup.before[b].last_seen
    IN  \/ la < lb
        \/ la = lb /\ StrRank(a[2]) < StrRank(b[2])
        \/ la = lb /\ a[2] = b[2] /\ StrRank(a[1]) < StrRank(b[1])

\* the qualifying row that comes last
TopRow(key) == CHOOSE t \in Qualifying(key) : \A k \in Qualifying(key) \ {t} : ComesBefore(k, t)

\* C19: in a group with rows of more than one client, the row chosen to be kept
\* is an active one whenever the group has an active row, and among the
\* qualifying rows it is the one of the latest last_seen, then the greatest
\* client id, then the greatest hash; it is the same for every order in which
\* the rows are read, and the rows left are those of its client.
C19_DedupChoice ==
    DedupCompleted =>
        \A key \in DedupGroupKeys :
            MultiClient(key) =>
                /\ (\E k \in DedupMembers(key) : k[1] \in dedup.active_hashes)
                       => TopRow(key)[1] \in dedup.active_hashes
                /\ TopRow(key) \in DOMAIN torrents
                /\ \A k \in DedupMembers(key) \cap DOMAIN torrents : k[2] = TopRow(key)[2]

\* a committed call on a group with an active and an inactive row, where two
\* active rows of different clients have the same last_seen
C19_Witness ==
    /\ dedup.outcome = "committed"
    /\ \E key \in DedupGroupKeys :
          /\ MultiClient(key)
          /\ Qualifying(key) # DedupMembers(key)
          /\ \E a, b \in Qualifying(key) :
                /\ a[2] # b[2]
                /\ dedup.before[a].last_seen = dedup.before[b].last_seen
                /\ \A k \in Qualifying(key) :
                      dedup.before[k].last_seen <= dedup.before[a].last_seen

---------------------------------------------------------------------------
(* update_torrents_in_db on a store that holds rows of a downloader the
   configuration no longer names *)

\* a configuration in which every downloader is disabled
DisabledDownloaders ==
    [k \in 1..Len(ConfiguredDownloaders) |->
        [ConfiguredDownloaders[k] EXCEPT !.enabled = FALSE]]

\* the rows of the store before the pass: "W" is a downloader that was removed
\* from the configuration, "Z" is configured and disabled
CleanupKeys == {<<"hA", "X">>, <<"hA", "Z">>, <<"hA", "W">>, <<"hB", "W">>}

InitCleanup ==
    /\ config \in {[downloaders |-> ConfiguredDownloaders],
                   [downloaders |-> DisabledDownloaders]}
    /\ db_type = "sqlite"
    /\ \E keys \in SUBSET CleanupKeys : \E rows \in [keys -> StartupRows] :
          /\ torrents = rows
          /\ torrent_upload_stats = [k \in keys |-> 3]
    /\ \E held \in SUBSET {"hA"} :
          client_torrents =
             [d \in DownloaderIds |->
                 IF d = "X" THEN [h \in held |-> StartupInfo] ELSE EmptyTable]
    /\ now = 2
    /\ pc = "idle"
    /\ loop_i = 0
    /\ all_db_attribute_index = {}
    /\ all_active_hashes = {}
    /\ totals = NoTotals
    /\ call = NoCall
    /\ pass_error = FALSE
    /\ clients_unchanged = FALSE
    /\ InitTraffic
    /\ InitRest

NextCleanup ==
    \/ BeginUpdate
    \/ UpdateSkips
    \/ FetchFails
    \/ ReconcileCommits
    \/ ReconcileRollsBack
    \/ CleanupDeletedDownloaders
    \/ CleanupRollsBack
    \/ ReturnFromUpdate

SpecCleanup == InitCleanup /\ [][NextCleanup]_vars

---------------------------------------------------------------------------
(* Properties of the connectors *)

\* a call of _update_downloader_torrents_incremental ends on a connector error
ListingErrorStep ==
    /\ pc = "loop"
    /\ loop_i' = loop_i + 1
    /\ call'.outcome = "fetch_failed"
    /\ call'.fetch_error \in {"connect", "listing"}

\* C21 as the specification states it: after a connector error for a client in
\* the torrent-list fetch, the client's handle is no longer in the clients
\* cache.
C21_AsStated == [][ListingErrorStep => call'.downloader_id \notin clients']_vars

---------------------------------------------------------------------------
(* Properties of the update criterion *)

\* the last call ran to its end on a snapshot
CallCompleted == call.outcome \in {"committed", "no_changes"}

\* the hashes both in the snapshot and in the client's rows of the last call
KnownHashes == DOMAIN call.current_torrents \cap DOMAIN call.db_torrents

\* the row of h is not the row the last call read
RowWritten(h) ==
    /\ CallKey(h) \in DOMAIN torrents
    /\ torrents[CallKey(h)] # call.db_torrents[h]

\* the criterion on the values as they are shown: progress in tenths of a
\* percentage point
CriterionMet(current_info, db_info) ==
    LET diff == RoundProgress(current_info.progress) - db_info.progress
    IN  \/ diff > 1
        \/ diff < -1
        \/ format_state(current_info.state) # db_info.state
        \/ current_info.size # db_info.size
        \/ current_info.save_path # db_info.save_path
        \/ current_info.seeders # db_info.seeders

\* C22 as the specification states it: a row whose hash is both in the
\* snapshot and in the client's rows is written by the call if and only if
\* progress differs by more than 0.1 percentage point or state, size, save
\* path or seeders differ.
C22_AsStated ==
    CallCompleted =>
        \A h \in KnownHashes :
            RowWritten(h) <=> CriterionMet(call.current_torrents[h], call.db_torrents[h])

---------------------------------------------------------------------------
(* Properties of the traffic samples of a tick *)

\* the positions of the points of downloader d in data_points
PointsOf(points, d) == {k \in 1..Len(points) : points[k].downloader_id = d}

\* C23 as the specification states it: the data points a tick buffers hold at
\* most one sample for each enabled client, direct or proxied.
C23_AsStated ==
    \A d \in EnabledIds :
        /\ Cardinality(PointsOf(tick.points, d)) <= 1
        /\ \A i \in 1..Len(traffic_buffer) :
              Cardinality(PointsOf(traffic_buffer[i].points, d)) <= 1

---------------------------------------------------------------------------
(* Properties of the identity resolver *)

\* the last call compared a snapshot with the client's rows
CallCompared == call.outcome \in {"committed", "no_changes", "rolled_back"}

\* C24 as the specification states it: a hash of the snapshot that is new to
\* the client is recognised as the new hash of a persisted row of the client
\* that the client no longer reports whenever the two have equal normalized
\* group keys.
C24_AsStated ==
    CallCompared =>
        \A hashA \in AbsentHashes : \A hashB \in FreshHashes :
            NormKeyOf(call.db_torrents[hashA]) = NormKeyOf(call.current_torrents[hashB])
            => /\ hashB \in call.updated_torrents
               /\ call.old_hash_for_replacement[hashB] # None

---------------------------------------------------------------------------
(* Properties of the critical sections on traffic_buffer *)

\* the thread of run is between lines 501 and 505
RunInSection == run_pc \in {"append", "flush", "clear", "unlock"}

\* the thread that called stop is between lines 2296 and 2299
StopInSection == stop_pc \in {"flush", "clear", "unlock"}

\* the number of returned flush calls that were given entry number n
TimesHanded(n) ==
    Cardinality({i \in 1..Len(handed.log) :
                    \E k \in 1..Len(handed.log[i]) : handed.log[i][k] = n})

---------------------------------------------------------------------------
(* C26 *)

\* the thread is at the test of while self._is_running
AtLoopTest == run_pc = "loop"

\* a tick is in progress: the thread is between the test of the loop and the wait
TickInProgress == run_pc \in {"buffer", "aggregate"}

\* C26: once stop() has set the flag and the event, the loop starts no tick: from
\* the test of the running flag the thread only leaves the loop; and when no
\* tick is in progress (any more), the thread leaves the loop, through that test
\* or through the wait that the event ends.
C26_ShutdownResponsive ==
    /\ [][(StopCalled /\ AtLoopTest) => run_pc' \in {"loop", "exited"}]_vars
    /\ ((StopCalled /\ ~TickInProgress) ~> run_pc = "exited")

\* stop() was called and the loop is left, with what the last tick buffered still
\* in the buffer for the flush of stop()
C26_Witness ==
    /\ StopCalled
    /\ run_pc = "exited"
    /\ stop_pc = "signalled"
    /\ traffic_buffer # <<>>

---------------------------------------------------------------------------
(* C27 *)

\* the step of a tick that appends its entry to the buffer (lines 501-505)
AppendStep == run_pc = "buffer" /\ run_pc' # "buffer"

\* C27 as stated: the buffer is shorter than TRAFFIC_BATCH_WRITE_SIZE whenever
\* the thread is not inside a tick, and the append that brings the buffer to
\* that size hands the whole buffer to one flush and leaves the buffer empty.
C27_AsStated ==
    /\ [](run_pc \in {"loop", "wait", "exited"}
            => Len(traffic_buffer) < TRAFFIC_BATCH_WRITE_SIZE)
    /\ [][(AppendStep /\ Len(traffic_buffer) + 1 >= TRAFFIC_BATCH_WRITE_SIZE)
             => /\ traffic_buffer' = <<>>
                /\ last_flush'.batch = Append(traffic_buffer, tick)]_vars

---------------------------------------------------------------------------
(* C28 *)

\* the step that ends a tick: the thread comes to the wait of lines 349-356
EndOfTick == run_pc # "wait" /\ run_pc' = "wait"

\* the counter after a tick that advanced it by the interval and ran the rollup
\* when it was due
CounterAfterTick ==
    IF aggregation_counter + interval >= AGGREGATION_INTERVAL
    THEN 0
    ELSE aggregation_counter + interval

\* C28 as stated: every tick advances the counter by the interval and the
\* rollup runs, with the counter back at 0, in the tick in which the counter
\* reaches AGGREGATION_INTERVAL: the rollup recurs every
\* AGGREGATION_INTERVAL / interval ticks; between ticks the counter is below
\* AGGREGATION_INTERVAL.
C28_AsStated ==
    /\ [][EndOfTick => aggregation_counter' = CounterAfterTick]_vars
    /\ [](run_pc \in {"loop", "wait", "exited"}
            => aggregation_counter < AGGREGATION_INTERVAL)

---------------------------------------------------------------------------
(* C29 *)

\* a step in which a flush committed
FlushCommitted ==
    /\ last_flush'.outcome = "committed"
    /\ (last_flush' # last_flush \/ traffic_stats' # traffic_stats)

\* the latest row of client d in the store TS
LatestRowKey(TS, d) ==
    CHOOSE k \in DOMAIN TS : k[2] = d /\ \A k2 \in DOMAIN TS : k2[2] = d => k2[1] <= k[1]

\* neither counter of point p is below the counters ul and dl
NotLower(p, ul, dl) == p.total_ul >= ul /\ p.total_dl >= dl

\* for the samples of a batch, in order: the sample is valid, that is, its
\* counters are not lower than those of the last valid sample of its client
\* before it in the batch or, when there is none, than those of the latest row
\* the client has in the store TS
ValidSamples(samples, TS) ==
    LET valid[i \in 1..Len(samples)] ==
            LET d == samples[i].point.downloader_id
                before == {j \in 1..(i - 1) : samples[j].point.downloader_id = d /\ valid[j]}
            IN  IF before # {}
                THEN LET j == CHOOSE j \in before : \A j2 \in before : j2 <= j
                     IN  NotLower(samples[i].point, samples[j].point.total_ul,
                                  samples[j].point.total_dl)
                ELSE IF \E k \in DOMAIN TS : k[2] = d
                     THEN NotLower(samples[i].point,
                                   TS[LatestRowKey(TS, d)].cumulative_uploaded,
                                   TS[LatestRowKey(TS, d)].cumulative_downloaded)
                     ELSE TRUE
    IN  valid

\* the non-zero samples of the batch of the flush of this step
FlushedSamples == FilteredSamples(last_flush'.batch)

SampleKey(x) == <<x.timestamp, x.point.downloader_id>>

\* C29: in a flush that commits, every valid sample of the batch is written,
\* whatever was rejected before it in the batch (the row of its timestamp and
\* client holds its counters, or those of a later valid sample of the same
\* second), validity being judged against the last valid sample of the client,
\* never against a rejected one; and a rejected sample writes nothing.
C29_RejectionIsLocal ==
    [][FlushCommitted =>
         LET samples == FlushedSamples
             valid == ValidSamples(samples, traffic_stats)
             n == Len(samples)
         IN  /\ \A i \in 1..n : valid[i] =>
                   /\ SampleKey(samples[i]) \in DOMAIN traffic_stats'
                   /\ \E j \in i..n :
                         /\ valid[j]
                         /\ SampleKey(samples[j]) = SampleKey(samples[i])
                         /\ traffic_stats'[SampleKey(samples[i])].cumulative_uploaded
                               = samples[j].point.total_ul
                         /\ traffic_stats'[SampleKey(samples[i])].cumulative_downloaded
                               = samples[j].point.total_dl
             /\ \A k \in WrittenTrafficKeys :
                   \E i \in 1..n : valid[i] /\ SampleKey(samples[i]) = k]_vars

\* a committed flush rejected a sample of a client and wrote a later sample of
\* the same client that the rejected one, taken as the reference, would have
\* ruled out, and wrote a sample of another client as well
C29_Witness ==
    /\ last_flush.outcome = "committed"
    /\ LET samples == FilteredSamples(last_flush.batch)
       IN  \E i \in 1..Len(samples) : \E j \in (i + 1)..Len(samples) :
              \E o \in 1..Len(samples) :
             /\ samples[i] \in last_flush.rejected
             /\ samples[j] \notin last_flush.rejected
             /\ samples[o] \notin last_flush.rejected
             /\ samples[j].point.downloader_id = samples[i].point.downloader_id
             /\ samples[o].point.downloader_id # samples[i].point.downloader_id
             /\ ~NotLower(samples[j].point, samples[i].point.total_ul,
                          samples[i].point.total_dl)
             /\ SampleKey(samples[j]) \in DOMAIN traffic_stats
             /\ traffic_stats[SampleKey(samples[j])].cumulative_uploaded
                   = samples[j].point.total_ul
             /\ SampleKey(samples[o]) \in DOMAIN traffic_stats

---------------------------------------------------------------------------
(* C30 *)

\* the rows of table T of downloaders the configuration names, enabled or not
ConfiguredRows(T) == {k \in DOMAIN T : k[2] \in DownloaderIds}

\* C30 as stated: when update_torrents_in_db has completed, every row of
\* torrents belongs to a downloader of the configuration; and the call of
\* _cleanup_deleted_downloaders leaves every row of a configured downloader,
\* enabled or disabled, as it was.
C30_AsStated ==
    /\ [](pc = "done" => DOMAIN torrents = ConfiguredRows(torrents))
    /\ [][pc = "cleanup"
             => \A k \in ConfiguredRows(torrents) :
                   k \in DOMAIN torrents' /\ torrents'[k] = torrents[k]]_vars

---------------------------------------------------------------------------
(* C31 *)

\* update_torrents_in_db is about to return and no client of the pass failed to
\* answer or rolled back
PassCompletedWithoutError == pc = "done" /\ ~pass_error

\* C31 as stated: when update_torrents_in_db has completed without a connector
\* error and without a persistence error, the store holds the row (h, C) for
\* every enabled client C and every hash h that C holds.
C31_AsStated ==
    [](PassCompletedWithoutError
         => \A d \in EnabledIds : \A h \in DOMAIN client_torrents[d] :
               <<h, d>> \in DOMAIN torrents)

---------------------------------------------------------------------------
(* C32 *)

\* a step in which a client's snapshot changes
SnapshotStep == client_torrents' # client_torrents

\* a step in which a client of the pass fails to answer or its transaction is
\* rolled back
ErrorStep ==
    /\ pc = "loop"
    /\ loop_i' = loop_i + 1
    /\ (call'.outcome = "rolled_back" \/ call'.fetch_error # "none")

\* a step that changes a row of torrents or of torrent_upload_stats
StoreStep == torrents' # torrents \/ torrent_upload_stats' # torrent_upload_stats

\* C32 as stated: in every execution in which, from some point on, no snapshot
\* changes and no error occurs, the store is from some point on never changed
\* again, however many passes follow.
C32_AsStated ==
    <>[][~SnapshotStep /\ ~ErrorStep]_vars => <>[][~StoreStep]_vars

---------------------------------------------------------------------------
(* C33 *)

\* C33 as stated: every row (hash, client) of torrent_upload_stats has a row
\* with the same (hash, client) in torrents, after every committed or rolled
\* back step of the reconciliation.
C33_AsStated == DOMAIN torrent_upload_stats \subseteq DOMAIN torrents

---------------------------------------------------------------------------
(* C34 *)

\* a step in which _update_downloader_torrents_incremental runs to its end on a
\* snapshot: it commits, or finds nothing new, updated or deleted
ReconcileCompletes ==
    /\ pc = "loop"
    /\ loop_i' = loop_i + 1
    /\ call'.fetch_error = "none"
    /\ call'.outcome \in {"committed", "no_changes"}

\* C34 as stated: when a client's reconcile has completed without error, the
\* row of torrent_upload_stats of every torrent of its snapshot with
\* uploaded > 0 holds the uploaded value of the snapshot, also when the call
\* found nothing new, updated or deleted.
C34_AsStated ==
    [][ReconcileCompletes
         => \A h \in _collect_upload_stats(call'.current_torrents) :
               /\ <<h, call'.downloader_id>> \in DOMAIN torrent_upload_stats'
               /\ torrent_upload_stats'[<<h, call'.downloader_id>>]
                     = call'.current_torrents[h].uploaded]_vars

---------------------------------------------------------------------------
(* C35 *)

\* the rows of table T of the downloaders that are configured and disabled
DisabledRows(T) == {k \in DOMAIN T : k[2] \in DownloaderIds \ EnabledIds}

\* C35 as stated: no step of update_torrents_in_db deletes or modifies a row of
\* torrents of a downloader that is configured and disabled.
C35_AsStated ==
    [][\A k \in DisabledRows(torrents) :
          k \in DOMAIN torrents' /\ torrents'[k] = torrents[k]]_vars

---------------------------------------------------------------------------
(* C36 *)

\* the rows of the client of the call a step makes that were absent from its
\* snapshot and are in the store after the step
KeptAbsentRows ==
    {k \in DOMAIN torrents' :
        /\ k[2] = call'.downloader_id
        /\ k[1] \in DOMAIN call'.db_torrents \ DOMAIN call'.current_torrents}

\* C36 as stated: right after a client's reconcile commits, every row of the
\* client that was absent from the snapshot and was kept is in state
\* not-seeding, and another row that is in the store after the commit has its
\* name and a state that is not inactive.
C36_AsStated ==
    [][CommitStep =>
          \A k \in KeptAbsentRows :
              /\ torrents'[k].state = "not_seeding"
              /\ SameNamedRows(torrents', k, AllStates \ InactiveStates) # {}]_vars

\* what a second call with the same active hashes would delete from the store
\* as it is now, its rows read in the order order
SecondRunDeletes(order) ==
    _deduplicate_based_on_active(torrents, torrent_upload_stats, dedup.active_hashes,
                                 order, -1).locals.to_delete

\* the clients that have a row of the group key in the store as it is now
ClientsOfGroup(key) ==
    {k[2] : k \in {r \in DOMAIN torrents : attr_key(RowDict(torrents, r)) = key}}

\* C37: after a call of _deduplicate_based_on_active that completes without
\* error, a second call with the same active hashes on the store the first
\* one left deletes nothing, in whatever order it reads the rows, and no group
\* key has rows of two different clients.
C37_DedupIdempotent ==
    DedupCompleted =>
        /\ \A order \in ReadOrders(torrents) : SecondRunDeletes(order) = {}
        /\ \A k \in DOMAIN torrents :
              Cardinality(ClientsOfGroup(attr_key(RowDict(torrents, k)))) <= 1

\* a committed call that deleted the rows of one client of a group and left
\* rows of the group behind
C37_Witness ==
    /\ dedup.outcome = "committed"
    /\ \E key \in DedupGroupKeys :
          /\ MultiClient(key)
          /\ \E k \in DedupMembers(key) : k \in dedup.to_delete
          /\ \E k \in DedupMembers(key) : k \in DOMAIN torrents

====
